---------------------------- MODULE Spec2Model ----------------------------
(***************************************************************************)
(* Ad Lib Gold WDM driver: register-bus arbitration, shadow cache, power   *)
(* state machine and interrupt dispatch of CAdapterCommon (adapter.cpp),   *)
(* with the consumers that call into it (algtopo.cpp, midi.cpp).           *)
(*                                                                         *)
(* Two specifications share the variables:                                 *)
(*   Spec     every operation runs to completion before the next starts    *)
(*            (the serialised domain the code's comments ask callers for); *)
(*   SpecIrq  the topology property handler calls ControlRegWrite from     *)
(*            ordinary call context, one port access at a time, while the  *)
(*            connected interrupt service routine may run in between.      *)
(***************************************************************************)
EXTENDS Integers, Sequences, FiniteSets, TLC

VARIABLES
    adapter,          \* "new" | "ready" | "failed": outcome of CAdapterCommon::Init
    connected,        \* interrupt service routine registered and connected
    m_PowerState,     \* DEVICE_POWER_STATE
    m_ControlRegs,    \* shadow cache, index 0x00..0x18
    m_CardModel,
    m_CardOptions,
    m_pWaveMiniport,  \* consumer slot: NULL or the wave miniport
    m_pMidiMiniport,  \* consumer slot: NULL or the MIDI miniport
    hw,               \* the chip behind the ports: bank latch, index latch, registers
    ports,            \* port accesses of the call in progress / the last completed operation
    op,               \* the last completed operation, its arguments and result
    call,             \* SpecIrq: position of the unsynchronised ControlRegWrite
    miniports,        \* SpecMiniports: the wave and MIDI miniport objects
    isr,              \* SpecSlotRace: position of an interrupt taken on another processor
    ring,             \* SpecRing: the MIDI miniport's streams and input ring buffer
    audio,            \* SpecWave: the wave miniport's streams, DMA channel and the MMA
    nops              \* number of operations issued so far

vars == <<adapter, connected, m_PowerState, m_ControlRegs, m_CardModel,
          m_CardOptions, m_pWaveMiniport, m_pMidiMiniport, hw, ports, op,
          call, miniports, isr, ring, audio, nops>>

(***************************************************************************)
(* Bounds of the exploration.                                              *)
(***************************************************************************)
MaxOps == 3

(***************************************************************************)
(* Program constants (common.h, midi.cpp).                                 *)
(***************************************************************************)
ALG_REG_FM0_ADDR == 0
ALG_REG_FM0_DATA == 1
ALG_REG_FM1_ADDR == 2
ALG_REG_FM1_DATA == 3
ALG_REG_MMA0_ADDR == 4
ALG_REG_MMA0_DATA == 5

ALG_BANK_CONTROL == 255
ALG_BANK_OPL3 == 254

ALG_STATUS_BUSY_MASK == 192
ALG_STATUS_SMP_IRQ == 2
ALG_STATUS_FM_IRQ == 1
ALG_STATUS_IRQ_MASK == 15

MMA_STATUS_PRQ == 2
MMA_STATUS_RRQ == 4
MMA_REG_STATUS == 0
MMA_REG_MIDI_CTRL == 13
MMA_REG_MIDI_DATA == 14

CTRL_REG_CONTROL_ID == 0
CTRL_REG_RESERVED == 18
CTRL_REG_MAX == 25
CTRL_MIXER_FIRST == 4
CTRL_MIXER_LAST == 15
CTRL_ID_MODEL_MASK == 15
CTRL_ID_SAVE == 2
CTRL_ID_RESTORE == 1
ALG_MODEL_GOLD2000MC == 2

MMA_MIDI_MSK_POV == 128
MMA_MIDI_MSK_MOV == 64
MMA_MIDI_TRS_RST == 32
MMA_MIDI_MSK_TRQ == 16
MMA_MIDI_RCV_RST == 8
MMA_MIDI_MSK_RRQ == 4
MMA_MIDI_CTRL_DEFAULT == MMA_MIDI_MSK_POV + MMA_MIDI_MSK_MOV + MMA_MIDI_MSK_TRQ

CTRL_REG_IRQ_DMA0 == 19
CTRL_DMA0_ENABLE == 128
CTRL_DMA0_SEL_SHIFT == 5
CTRL_IRQ_ENABLE == 16
CTRL_IRQ_SEL_3 == 0
CTRL_IRQ_SEL_4 == 1
CTRL_IRQ_SEL_5 == 2
CTRL_IRQ_SEL_7 == 3
CTRL_IRQ_SEL_10 == 4
CTRL_IRQ_SEL_11 == 5
CTRL_IRQ_SEL_12 == 6
CTRL_IRQ_SEL_15 == 7

WaitTimeout == 1000
MidiInitDrainLimit == 16
MidiDrainLimit == 16

PowerDeviceUnspecified == 0
PowerDeviceD0 == 1
PowerDeviceD1 == 2
PowerDeviceD2 == 3
PowerDeviceD3 == 4

NULL == "NULL"
WaveMiniport == "wave"
MidiMiniport == "midi"

STATUS_SUCCESS == "STATUS_SUCCESS"
STATUS_UNSUCCESSFUL == "STATUS_UNSUCCESSFUL"
STATUS_DEVICE_DOES_NOT_EXIST == "STATUS_DEVICE_DOES_NOT_EXIST"
STATUS_DEVICE_POWERED_OFF == "STATUS_DEVICE_POWERED_OFF"
STATUS_INVALID_PARAMETER == "STATUS_INVALID_PARAMETER"
STATUS_INVALID_DEVICE_REQUEST == "STATUS_INVALID_DEVICE_REQUEST"
STATUS_INSUFFICIENT_RESOURCES == "STATUS_INSUFFICIENT_RESOURCES"
STATUS_DEVICE_CONFIGURATION_ERROR == "STATUS_DEVICE_CONFIGURATION_ERROR"

\* DefaultMixerSettings[]: <<RegisterIndex, RegisterSetting>>
DefaultMixerSettings ==
    << <<4, 216>>, <<5, 216>>, <<6, 246>>, <<7, 246>>, <<8, 196>>,
       <<9, 192>>, <<10, 192>>, <<11, 192>>, <<12, 192>>, <<13, 192>>,
       <<14, 192>>, <<15, 128>> >>

(***************************************************************************)
(* Inputs.                                                                 *)
(***************************************************************************)
RegInputs == {0, 6, 9, 18, 24, 25}
ValInputs == {0, 249}
\* number of status reads that return busy before the busy mask clears
BusyInputs == {0, 1, WaitTimeout}
\* interrupt status bytes read in the dispatcher (low nibble: active-low sources)
StatusInputs == {15, 207, 14, 13, 12, 11, 3, 0}
MmaInputs == {0, 2, 4, 6}
\* number of MIDI bytes the receive FIFO offers (status keeps RRQ set that long)
RrqInputs == {0, 1, MidiDrainLimit + 1}
IdInputs == {1, 226, 7}
\* content of the chip's registers before the driver first writes them
PowerOnFill == 90
\* content of every EEPROM cell before the driver first saves to it
EepromFill == 60
\* synthesizer addresses: primary bank, secondary bank, secondary bank with the
\* low byte equal to the bank-select byte 0xFF
Opl3AddressInputs == {5, 261, 511}
Opl3DataInputs == {177}
\* interrupt lines and DMA channels PnP may assign
IrqLineInputs == {7, 9}
DmaChannelInputs == {1}
\* where the wave miniport's ProcessResources ends: too few resources, no DMA
\* channel, no DMA buffer of any size, or everything allocated
ResourceInputs == {"counts", "channel", "buffer", "ok"}
PowerInputs == {PowerDeviceUnspecified, PowerDeviceD0, PowerDeviceD1,
                PowerDeviceD2, PowerDeviceD3}

(***************************************************************************)
(* Byte arithmetic.                                                        *)
(***************************************************************************)
RECURSIVE BitAnd(_, _)
BitAnd(a, b) ==
    IF a = 0 \/ b = 0 THEN 0
    ELSE (IF a % 2 = 1 /\ b % 2 = 1 THEN 1 ELSE 0) + 2 * BitAnd(a \div 2, b \div 2)

(***************************************************************************)
(* The chip behind the ports.  base+2/3 is shared by the Control Chip and  *)
(* OPL3 array 1: writing 0xFF / 0xFE to base+2 selects the bank, any other *)
(* byte written there is the register index of the selected bank.          *)
(* Control register 0 is the command/identity register: a write with the   *)
(* save bit copies the registers to the EEPROM, a write with the restore   *)
(* bit copies the EEPROM to the registers, reads return the identity byte. *)
(* base+0/1 is the unshared pair of OPL3 array 0.                          *)
(***************************************************************************)
\* a byte written to Control Chip register 0
HwCommand(h, val) ==
    IF BitAnd(val, CTRL_ID_SAVE) # 0 THEN [h EXCEPT !.eeprom = h.regs]
    ELSE IF BitAnd(val, CTRL_ID_RESTORE) # 0 THEN [h EXCEPT !.regs = h.eeprom]
    ELSE h

HwWrite(h, port, val) ==
    IF port = ALG_REG_FM1_ADDR THEN
        IF val = ALG_BANK_CONTROL THEN [h EXCEPT !.bank = "Control"]
        ELSE IF val = ALG_BANK_OPL3 THEN [h EXCEPT !.bank = "OPL3"]
        ELSE IF h.bank = "Control" THEN [h EXCEPT !.ctrlIdx = val]
        ELSE [h EXCEPT !.fm1Addr = val]
    ELSE IF port = ALG_REG_FM1_DATA THEN
        IF h.bank = "Control" THEN
            IF h.ctrlIdx \in 1..(CTRL_REG_MAX - 1)
            THEN [h EXCEPT !.regs[h.ctrlIdx] = val]
            ELSE IF h.ctrlIdx = CTRL_REG_CONTROL_ID
            THEN HwCommand(h, val)
            ELSE h
        ELSE [h EXCEPT !.fm1Last = <<h.fm1Addr, val>>]
    ELSE IF port = ALG_REG_FM0_ADDR THEN [h EXCEPT !.fm0Addr = val]
    ELSE IF port = ALG_REG_FM0_DATA THEN [h EXCEPT !.fm0Last = <<h.fm0Addr, val>>]
    ELSE h

HwRead(h, port) ==
    IF port = ALG_REG_FM1_DATA /\ h.bank = "Control" THEN
        IF h.ctrlIdx = CTRL_REG_CONTROL_ID THEN h.id
        ELSE IF h.ctrlIdx < CTRL_REG_MAX THEN h.regs[h.ctrlIdx]
        ELSE 255
    ELSE 255

(***************************************************************************)
(* A machine value m bundles what the register routines read and write:    *)
(* hw, the shadow cache (regs), the power state (ps) and the port log.     *)
(***************************************************************************)
Access(rw, port, val, n) == [rw |-> rw, port |-> port, val |-> val, n |-> n]

\* WRITE_PORT_UCHAR
PortW(m, port, val) ==
    [m EXCEPT !.hw = HwWrite(m.hw, port, val),
              !.log = Append(@, Access("W", port, val, 1))]

\* READ_PORT_UCHAR returning val (n consecutive reads, val is the last one)
PortR(m, port, val, n) ==
    [m EXCEPT !.log = Append(@, Access("R", port, val, n))]

\* KeStallExecutionProcessor
Stall(m, usec) ==
    [m EXCEPT !.log = Append(@, Access("S", 0, usec, 1))]

(***************************************************************************)
(* WaitForReady: do { status = read } while (busy && --timeout).           *)
(* busy is the number of reads the chip answers with a busy bit set.  The  *)
(* loop body runs again after each of the first `again` reads: those are   *)
(* the reads that are busy and leave timeout above zero; one more read     *)
(* ends the loop, either not busy or taking timeout to zero.               *)
(***************************************************************************)
WaitLoop(busy, timeout) ==
    LET again == IF busy < timeout - 1 THEN busy ELSE timeout - 1
        last  == busy - again > 0
    IN  [reads   |-> again + 1,
         timeout |-> IF last THEN timeout - again - 1 ELSE timeout - again,
         status  |-> IF last THEN ALG_STATUS_BUSY_MASK ELSE 0]

WaitForReadyResult(busy) == WaitLoop(busy, WaitTimeout).timeout > 0

WaitForReady(m, busy) ==
    LET w == WaitLoop(busy, WaitTimeout)
    IN  PortR(m, ALG_REG_FM1_ADDR, w.status, w.reads)

(***************************************************************************)
(* CAdapterCommon::ControlRegWrite                                         *)
(***************************************************************************)
\* variant: step 6 (restore the OPL3 bank) left out
ControlRegWriteHardware_NoRestore(m, Register, Value, busy) ==
    LET m1 == PortW(m, ALG_REG_FM1_ADDR, ALG_BANK_CONTROL)
        m2 == WaitForReady(m1, busy)
        m3 == PortW(m2, ALG_REG_FM1_ADDR, Register)
        m4 == PortW(m3, ALG_REG_FM1_DATA, Value)
    IN  IF Register >= 4 /\ Register <= 8 THEN WaitForReady(m4, busy)
        ELSE IF Register >= 9 /\ Register <= 22 THEN Stall(m4, 5)
        ELSE m4

\* variant: the data value is written before the register index
ControlRegWriteHardware_DataFirst(m, Register, Value, busy) ==
    LET m1 == PortW(m, ALG_REG_FM1_ADDR, ALG_BANK_CONTROL)
        m2 == WaitForReady(m1, busy)
        m3 == PortW(m2, ALG_REG_FM1_DATA, Value)
        m4 == PortW(m3, ALG_REG_FM1_ADDR, Register)
        m5 == IF Register >= 4 /\ Register <= 8 THEN WaitForReady(m4, busy)
              ELSE IF Register >= 9 /\ Register <= 22 THEN Stall(m4, 5)
              ELSE m4
    IN  PortW(m5, ALG_REG_FM1_ADDR, ALG_BANK_OPL3)

\* variant: register 9 is settled by polling instead of the stall
ControlRegWriteHardware_PollTo9(m, Register, Value, busy) ==
    LET m1 == PortW(m, ALG_REG_FM1_ADDR, ALG_BANK_CONTROL)
        m2 == WaitForReady(m1, busy)
        m3 == PortW(m2, ALG_REG_FM1_ADDR, Register)
        m4 == PortW(m3, ALG_REG_FM1_DATA, Value)
        m5 == IF Register >= 4 /\ Register <= 9 THEN WaitForReady(m4, busy)
              ELSE IF Register >= 10 /\ Register <= 22 THEN Stall(m4, 5)
              ELSE m4
    IN  PortW(m5, ALG_REG_FM1_ADDR, ALG_BANK_OPL3)

\* steps 1-6: the port sequence executed when the power gate lets it through
ControlRegWriteHardware(m, Register, Value, busy) ==
    LET m1 == PortW(m, ALG_REG_FM1_ADDR, ALG_BANK_CONTROL)
        m2 == WaitForReady(m1, busy)
        m3 == PortW(m2, ALG_REG_FM1_ADDR, Register)
        m4 == PortW(m3, ALG_REG_FM1_DATA, Value)
        m5 == IF Register >= 4 /\ Register <= 8 THEN WaitForReady(m4, busy)
              ELSE IF Register >= 9 /\ Register <= 22 THEN Stall(m4, 5)
              ELSE m4
    IN  PortW(m5, ALG_REG_FM1_ADDR, ALG_BANK_OPL3)

\* variant: the shadow cache is updated inside the power gate
ControlRegWrite_CacheInsideGate(m, Register, Value, busy) ==
    IF m.ps <= PowerDeviceD1
    THEN LET mh == ControlRegWriteHardware(m, Register, Value, busy)
         IN  IF Register < CTRL_REG_MAX
             THEN [mh EXCEPT !.regs[Register] = Value]
             ELSE mh
    ELSE m

\* variant: the power gate also lets Standby2 through
ControlRegWrite_GateD2(m, Register, Value, busy) ==
    LET mh == IF m.ps <= PowerDeviceD2
              THEN ControlRegWriteHardware(m, Register, Value, busy)
              ELSE m
    IN  IF Register < CTRL_REG_MAX
        THEN [mh EXCEPT !.regs[Register] = Value]
        ELSE mh

ControlRegWrite(m, Register, Value, busy) ==
    LET mh == IF m.ps <= PowerDeviceD1
              THEN ControlRegWriteHardware(m, Register, Value, busy)
              ELSE m
    IN  IF Register < CTRL_REG_MAX
        THEN [mh EXCEPT !.regs[Register] = Value]
        ELSE mh

\* CAdapterCommon::ControlRegRead
ControlRegRead(regs, Register) ==
    IF Register < CTRL_REG_MAX THEN regs[Register] ELSE 0

\* a run of ControlRegWrite calls, ws a sequence of <<Register, Value>>
RECURSIVE WriteAll(_, _, _)
WriteAll(m, ws, busy) ==
    IF ws = <<>> THEN m
    ELSE WriteAll(ControlRegWrite(m, Head(ws)[1], Head(ws)[2], busy), Tail(ws), busy)

(***************************************************************************)
(* CAdapterCommon::WriteOPL3                                               *)
(***************************************************************************)
WriteOPL3(m, Address, Data) ==
    IF m.ps > PowerDeviceD1 THEN m
    ELSE IF Address < 256
    THEN Stall(PortW(Stall(PortW(m, ALG_REG_FM0_ADDR, Address % 256), 23),
                     ALG_REG_FM0_DATA, Data), 23)
    ELSE Stall(PortW(Stall(PortW(PortW(m, ALG_REG_FM1_ADDR, ALG_BANK_OPL3),
                                 ALG_REG_FM1_ADDR, Address % 256), 23),
                     ALG_REG_FM1_DATA, Data), 23)

(***************************************************************************)
(* CAdapterCommon::SaveToEEPROM and RestoreFromEEPROM.  Each returns the   *)
(* machine and the status code.                                            *)
(***************************************************************************)
\* control bank selected, polled, register 0 selected, command byte written
EepromCommand(m, command, busy) ==
    PortW(PortW(WaitForReady(PortW(m, ALG_REG_FM1_ADDR, ALG_BANK_CONTROL), busy),
                ALG_REG_FM1_ADDR, CTRL_REG_CONTROL_ID),
          ALG_REG_FM1_DATA, command)

\* variant: the power gate lets Standby2 through
SaveToEEPROM_GateD2(m, busy) ==
    IF m.ps > PowerDeviceD2
    THEN [m |-> m, status |-> STATUS_DEVICE_POWERED_OFF]
    ELSE [m |-> PortW(WaitForReady(EepromCommand(m, CTRL_ID_SAVE, busy), busy),
                      ALG_REG_FM1_ADDR, ALG_BANK_OPL3),
          status |-> STATUS_SUCCESS]

SaveToEEPROM(m, busy) ==
    IF m.ps > PowerDeviceD1
    THEN [m |-> m, status |-> STATUS_DEVICE_POWERED_OFF]
    ELSE [m |-> PortW(WaitForReady(EepromCommand(m, CTRL_ID_SAVE, busy), busy),
                      ALG_REG_FM1_ADDR, ALG_BANK_OPL3),
          status |-> STATUS_SUCCESS]

\* one iteration of the read-back loop once the index has been written:
\* m_ControlRegs[reg] = READ_PORT_UCHAR(base+3)
ReadBackStore(m, reg, val) ==
    [PortR(m, ALG_REG_FM1_DATA, val, 1) EXCEPT !.regs[reg] = val]

ReadBackIndexed(m, reg) ==
    ReadBackStore(m, reg, HwRead(m.hw, ALG_REG_FM1_DATA))

\* for (reg = first; reg < CTRL_REG_MAX; reg++)
RECURSIVE ReadBackLoop(_, _)
ReadBackLoop(m, reg) ==
    IF reg >= CTRL_REG_MAX THEN m
    ELSE ReadBackLoop(ReadBackIndexed(PortW(m, ALG_REG_FM1_ADDR, reg), reg), reg + 1)

\* variant: the read-back loop starts at register 1, skipping the identity byte
RestoreFromEEPROM_SkipIdentity(m, busy) ==
    IF m.ps > PowerDeviceD1
    THEN [m |-> m, status |-> STATUS_DEVICE_POWERED_OFF]
    ELSE [m |-> PortW(ReadBackLoop(
                          WaitForReady(
                              Stall(EepromCommand(m, CTRL_ID_RESTORE, busy), 2500),
                              busy),
                          1),
                      ALG_REG_FM1_ADDR, ALG_BANK_OPL3),
          status |-> STATUS_SUCCESS]

RestoreFromEEPROM(m, busy) ==
    IF m.ps > PowerDeviceD1
    THEN [m |-> m, status |-> STATUS_DEVICE_POWERED_OFF]
    ELSE [m |-> PortW(ReadBackLoop(
                          WaitForReady(
                              Stall(EepromCommand(m, CTRL_ID_RESTORE, busy), 2500),
                              busy),
                          0),
                      ALG_REG_FM1_ADDR, ALG_BANK_OPL3),
          status |-> STATUS_SUCCESS]

(***************************************************************************)
(* CAdapterCommon::PowerChangeState                                        *)
(***************************************************************************)
RECURSIVE ReplayMixer(_, _, _)
ReplayMixer(m, i, busy) ==
    IF i > CTRL_MIXER_LAST THEN m
    ELSE ReplayMixer(ControlRegWrite(m, i, m.regs[i], busy), i + 1, busy)

\* variant: the power state is stored after the replay instead of before it
PowerChangeState_StateSetLast(m, NewState, busy) ==
    IF NewState # m.ps THEN
        IF NewState = PowerDeviceD0
        THEN [ReplayMixer(m, CTRL_MIXER_FIRST, busy) EXCEPT !.ps = NewState]
        ELSE IF NewState \in {PowerDeviceD1, PowerDeviceD2, PowerDeviceD3}
        THEN [m EXCEPT !.ps = NewState]
        ELSE m
    ELSE m

\* variant: entering Standby1 replays the mixer range as entering Full does
PowerChangeState_ReplayOnD1(m, NewState, busy) ==
    IF NewState # m.ps THEN
        IF NewState \in {PowerDeviceD0, PowerDeviceD1}
        THEN ReplayMixer([m EXCEPT !.ps = NewState], CTRL_MIXER_FIRST, busy)
        ELSE IF NewState \in {PowerDeviceD2, PowerDeviceD3}
        THEN [m EXCEPT !.ps = NewState]
        ELSE m
    ELSE m

\* variant: the replay starts above the first three registers of the range
PowerChangeState_ReplaySkipsVolume(m, NewState, busy) ==
    IF NewState # m.ps THEN
        IF NewState = PowerDeviceD0
        THEN ReplayMixer([m EXCEPT !.ps = NewState], CTRL_MIXER_FIRST + 3, busy)
        ELSE IF NewState \in {PowerDeviceD1, PowerDeviceD2, PowerDeviceD3}
        THEN [m EXCEPT !.ps = NewState]
        ELSE m
    ELSE m

PowerChangeState(m, NewState, busy) ==
    IF NewState # m.ps THEN
        IF NewState = PowerDeviceD0
        THEN ReplayMixer([m EXCEPT !.ps = NewState], CTRL_MIXER_FIRST, busy)
        ELSE IF NewState \in {PowerDeviceD1, PowerDeviceD2, PowerDeviceD3}
        THEN [m EXCEPT !.ps = NewState]
        ELSE m
    ELSE m

(***************************************************************************)
(* CAdapterCommon::ReadMMA, as used by the MIDI miniport in the dispatcher *)
(***************************************************************************)
ReadMMA(m, Register, val) ==
    IF m.ps > PowerDeviceD1 THEN m
    ELSE PortR(Stall(PortW(m, ALG_REG_MMA0_ADDR, Register), 1),
               ALG_REG_MMA0_DATA, val, 1)

\* the byte ReadMMA returns: 0 when power-gated, otherwise what the chip answers
ReadMMAValue(m, val) == IF m.ps > PowerDeviceD1 THEN 0 ELSE val

\* the i-th byte waiting in the MIDI receive FIFO
MidiByte(i) == 128 + i

(***************************************************************************)
(* CMiniportMidiUartAdLibGold::ServiceMidiISR: drain up to 16 bytes while  *)
(* the status register keeps RRQ set.  avail is the number of bytes the    *)
(* receive FIFO holds.                                                     *)
(***************************************************************************)
RECURSIVE ServiceMidiISR(_, _, _)
ServiceMidiISR(m, avail, bytesDrained) ==
    IF bytesDrained < MidiDrainLimit THEN
        LET chip      == IF bytesDrained < avail THEN MMA_STATUS_RRQ ELSE 0
            mmaStatus == ReadMMAValue(m, chip)
            m1        == ReadMMA(m, MMA_REG_STATUS, chip)
        IN  IF BitAnd(mmaStatus, MMA_STATUS_RRQ) = 0 THEN m1
            ELSE ServiceMidiISR(
                     ReadMMA(m1, MMA_REG_MIDI_DATA, MidiByte(bytesDrained + 1)),
                     avail, bytesDrained + 1)
    ELSE m

(***************************************************************************)
(* InterruptServiceRoutine.  status is the byte read from base+2 in the    *)
(* control bank, mma the byte read from the MMA status port.  The result   *)
(* carries the machine, the return code and how often each consumer        *)
(* callback was invoked.                                                   *)
(***************************************************************************)
\* variant: the wave consumer is called only when the status has PRQ set
IsrDispatch_WaveOnPrq(m3, wave, midi, status, mma, avail) ==
    LET smp  == BitAnd(status, ALG_STATUS_SMP_IRQ) = 0
        m4   == IF smp THEN PortR(m3, ALG_REG_MMA0_ADDR, mma, 1) ELSE m3
        doW  == smp /\ BitAnd(mma, MMA_STATUS_PRQ) # 0 /\ wave # NULL
        doM  == smp /\ BitAnd(mma, MMA_STATUS_RRQ) # 0 /\ midi # NULL
        m5   == IF doM THEN ServiceMidiISR(m4, avail, 0) ELSE m4
        m6   == IF BitAnd(status, ALG_STATUS_FM_IRQ) = 0
                THEN PortR(m5, ALG_REG_FM0_ADDR, 0, 1)
                ELSE m5
    IN  [m |-> m6, ret |-> STATUS_SUCCESS,
         wave |-> IF doW THEN 1 ELSE 0,
         midi |-> IF doM THEN 1 ELSE 0,
         mma  |-> IF smp THEN mma ELSE -1]

\* variant: the MIDI consumer is called whenever it is registered
IsrDispatch_MidiUngated(m3, wave, midi, status, mma, avail) ==
    LET smp  == BitAnd(status, ALG_STATUS_SMP_IRQ) = 0
        m4   == IF smp THEN PortR(m3, ALG_REG_MMA0_ADDR, mma, 1) ELSE m3
        doW  == smp /\ wave # NULL
        doM  == smp /\ midi # NULL
        m5   == IF doM THEN ServiceMidiISR(m4, avail, 0) ELSE m4
        m6   == IF BitAnd(status, ALG_STATUS_FM_IRQ) = 0
                THEN PortR(m5, ALG_REG_FM0_ADDR, 0, 1)
                ELSE m5
    IN  [m |-> m6, ret |-> STATUS_SUCCESS,
         wave |-> IF doW THEN 1 ELSE 0,
         midi |-> IF doM THEN 1 ELSE 0,
         mma  |-> IF smp THEN mma ELSE -1]

\* the part after the not-mine test: sampling/MMA source, then FM timer source
IsrDispatch(m3, wave, midi, status, mma, avail) ==
    LET smp  == BitAnd(status, ALG_STATUS_SMP_IRQ) = 0
        m4   == IF smp THEN PortR(m3, ALG_REG_MMA0_ADDR, mma, 1) ELSE m3
        doW  == smp /\ wave # NULL
        doM  == smp /\ BitAnd(mma, MMA_STATUS_RRQ) # 0 /\ midi # NULL
        m5   == IF doM THEN ServiceMidiISR(m4, avail, 0) ELSE m4
        m6   == IF BitAnd(status, ALG_STATUS_FM_IRQ) = 0
                THEN PortR(m5, ALG_REG_FM0_ADDR, 0, 1)
                ELSE m5
    IN  [m |-> m6, ret |-> STATUS_SUCCESS,
         wave |-> IF doW THEN 1 ELSE 0,
         midi |-> IF doM THEN 1 ELSE 0,
         mma  |-> IF smp THEN mma ELSE -1]

\* variant: the OPL3 bank is restored only after the sources were serviced,
\* so the probe leaves the control bank selected
IsrProbe_RestoreDeferred(m, status) ==
    PortR(PortW(m, ALG_REG_FM1_ADDR, ALG_BANK_CONTROL),
          ALG_REG_FM1_ADDR, status, 1)

\* the status probe every invocation starts with
IsrProbe(m, status) ==
    PortW(PortR(PortW(m, ALG_REG_FM1_ADDR, ALG_BANK_CONTROL),
                ALG_REG_FM1_ADDR, status, 1),
          ALG_REG_FM1_ADDR, ALG_BANK_OPL3)

\* variant: not-mine is reported when no source bit is set instead of all
InterruptServiceRoutine_NotMineOnZero(m, wave, midi, status, mma, avail) ==
    IF BitAnd(status, ALG_STATUS_IRQ_MASK) = 0
    THEN [m |-> IsrProbe(m, status), ret |-> STATUS_UNSUCCESSFUL,
          wave |-> 0, midi |-> 0, mma |-> -1]
    ELSE IsrDispatch(IsrProbe(m, status), wave, midi, status, mma, avail)

InterruptServiceRoutine(m, wave, midi, status, mma, avail) ==
    IF BitAnd(status, ALG_STATUS_IRQ_MASK) = ALG_STATUS_IRQ_MASK
    THEN [m |-> IsrProbe(m, status), ret |-> STATUS_UNSUCCESSFUL,
          wave |-> 0, midi |-> 0, mma |-> -1]
    ELSE IsrDispatch(IsrProbe(m, status), wave, midi, status, mma, avail)

(***************************************************************************)
(* Settings store seen by RestoreMixerSettingsFromRegistry.                *)
(*   open     both registry keys could be opened                           *)
(*   created  the Settings key did not exist before                        *)
(*   alloc    the query buffer could be allocated                          *)
(*   q[i]     stored DWORD of setting i, Missing, or BadLength             *)
(***************************************************************************)
Missing == -1
BadLength == -2

\* the registry outcomes explored: unopenable; key newly created; every value
\* stored; one value of the wrong length and the last one missing; buffer
\* allocation failed; only the last value missing; only a middle value missing
StoreCases ==
    << [open |-> FALSE, created |-> FALSE, alloc |-> TRUE,
        q |-> [i \in 1..12 |-> Missing]],
       [open |-> TRUE, created |-> TRUE, alloc |-> TRUE,
        q |-> [i \in 1..12 |-> Missing]],
       [open |-> TRUE, created |-> FALSE, alloc |-> TRUE,
        q |-> [i \in 1..12 |-> 448 + i]],
       [open |-> TRUE, created |-> FALSE, alloc |-> TRUE,
        q |-> [i \in 1..12 |-> IF i = 3 THEN BadLength
                              ELSE IF i = 12 THEN Missing ELSE 160 + i]],
       [open |-> TRUE, created |-> FALSE, alloc |-> FALSE,
        q |-> [i \in 1..12 |-> 448 + i]],
       [open |-> TRUE, created |-> FALSE, alloc |-> TRUE,
        q |-> [i \in 1..12 |-> IF i = 12 THEN Missing ELSE 448 + i]],
       [open |-> TRUE, created |-> FALSE, alloc |-> TRUE,
        q |-> [i \in 1..12 |-> IF i = 5 THEN Missing ELSE 448 + i]] >>

\* the outcomes Init is explored with, and those ControlRegReset is
StoreInputs == 1..5
ResetStoreInputs == 1..Len(StoreCases)

RECURSIVE RestoreLoop(_, _, _, _)
RestoreLoop(m, store, i, busy) ==
    IF i > Len(DefaultMixerSettings) THEN m
    ELSE LET d  == DefaultMixerSettings[i]
             m1 == IF store.q[i] = Missing THEN ControlRegWrite(m, d[1], d[2], busy)
                   ELSE IF store.q[i] = BadLength THEN m
                   ELSE ControlRegWrite(m, d[1], store.q[i] % 256, busy)
         IN  RestoreLoop(m1, store, i + 1, busy)

\* CAdapterCommon::RestoreMixerSettingsFromRegistry: machine and NT_SUCCESS(status)
RestoreMixerSettingsFromRegistry(m, store, busy) ==
    IF ~store.open THEN [m |-> m, ok |-> FALSE]
    ELSE IF store.created
    THEN [m |-> WriteAll(m, DefaultMixerSettings, busy), ok |-> TRUE]
    ELSE IF ~store.alloc
    THEN [m |-> WriteAll(m, DefaultMixerSettings, busy), ok |-> FALSE]
    ELSE [m  |-> RestoreLoop(m, store, 1, busy),
          ok |-> store.q[Len(DefaultMixerSettings)] # Missing]

\* ControlRegReset after the registry restore returned r: defaults on failure,
\* then the reserved register is cleared
ControlRegResetDefaults(r, busy) ==
    ControlRegWrite(IF ~r.ok THEN WriteAll(r.m, DefaultMixerSettings, busy) ELSE r.m,
                    CTRL_REG_RESERVED, 0, busy)

\* CAdapterCommon::ControlRegReset
ControlRegReset(m, store, busy) ==
    ControlRegResetDefaults(RestoreMixerSettingsFromRegistry(m, store, busy), busy)

(***************************************************************************)
(* CAdapterCommon::Init.  busy is the chip's answer to the identity probe, *)
(* irqOk whether the interrupt sync object could be created and connected. *)
(***************************************************************************)
\* variant: the model check also rejects the highest known model code
AdapterInitIdentified_RejectsGold2000MC(m, idByte, busy, irqOk, store) ==
    IF BitAnd(idByte, CTRL_ID_MODEL_MASK) >= ALG_MODEL_GOLD2000MC
    THEN [m |-> m, status |-> STATUS_DEVICE_DOES_NOT_EXIST,
          probed |-> TRUE, idByte |-> idByte, connected |-> FALSE]
    ELSE IF ~irqOk
    THEN [m |-> m, status |-> STATUS_UNSUCCESSFUL,
          probed |-> TRUE, idByte |-> idByte, connected |-> FALSE]
    ELSE [m |-> ControlRegReset(m, store, busy),
          status |-> STATUS_SUCCESS,
          probed |-> TRUE, idByte |-> idByte, connected |-> TRUE]

\* Init after the identity byte was read: m is the machine with the OPL3 bank
\* restored and the byte cached
AdapterInitIdentified(m, idByte, busy, irqOk, store) ==
    IF BitAnd(idByte, CTRL_ID_MODEL_MASK) > ALG_MODEL_GOLD2000MC
    THEN [m |-> m, status |-> STATUS_DEVICE_DOES_NOT_EXIST,
          probed |-> TRUE, idByte |-> idByte, connected |-> FALSE]
    ELSE IF ~irqOk
    THEN [m |-> m, status |-> STATUS_UNSUCCESSFUL,
          probed |-> TRUE, idByte |-> idByte, connected |-> FALSE]
    ELSE [m |-> ControlRegReset(m, store, busy),
          status |-> STATUS_SUCCESS,
          probed |-> TRUE, idByte |-> idByte, connected |-> TRUE]

\* Init after the control bank answered ready: read register 0, restore the bank
AdapterInitProbe(m, idByte, busy, irqOk, store) ==
    AdapterInitIdentified(
        [PortW(PortR(m, ALG_REG_FM1_DATA, idByte, 1), ALG_REG_FM1_ADDR, ALG_BANK_OPL3)
            EXCEPT !.regs[CTRL_REG_CONTROL_ID] = idByte],
        idByte, busy, irqOk, store)

\* variant: the probe goes on to read the identity byte whatever the poll says
AdapterInitPolled_IgnoreTimeout(m, busy, irqOk, store) ==
    AdapterInitProbe(PortW(m, ALG_REG_FM1_ADDR, CTRL_REG_CONTROL_ID),
                     HwRead(HwWrite(m.hw, ALG_REG_FM1_ADDR, CTRL_REG_CONTROL_ID),
                            ALG_REG_FM1_DATA),
                     busy, irqOk, store)

\* Init after the first WaitForReady: m is the machine the poll left
AdapterInitPolled(m, busy, irqOk, store) ==
    IF ~WaitForReadyResult(busy)
    THEN [m |-> m, status |-> STATUS_DEVICE_DOES_NOT_EXIST, probed |-> FALSE,
          idByte |-> 0, connected |-> FALSE]
    ELSE AdapterInitProbe(PortW(m, ALG_REG_FM1_ADDR, CTRL_REG_CONTROL_ID),
                          HwRead(HwWrite(m.hw, ALG_REG_FM1_ADDR, CTRL_REG_CONTROL_ID),
                                 ALG_REG_FM1_DATA),
                          busy, irqOk, store)

AdapterInit(m, busy, irqOk, store) ==
    AdapterInitPolled(
        WaitForReady(
            PortW([m EXCEPT !.ps = PowerDeviceD0,
                            !.regs = [i \in 0..(CTRL_REG_MAX - 1) |-> 0]],
                  ALG_REG_FM1_ADDR, ALG_BANK_CONTROL),
            busy),
        busy, irqOk, store)

(***************************************************************************)
(* State machine.                                                          *)
(***************************************************************************)
Mach(log) == [hw |-> hw, regs |-> m_ControlRegs, ps |-> m_PowerState, log |-> log]

\* a, b: the arguments (for ControlRegRead b is the byte returned; for the
\* dispatcher a is the interrupt status and b the MMA status it read, or -1;
\* for Init a is the busy answer and b the identity byte it read, or -1);
\* ret: the status code returned; wave, midi: callback invocations;
\* bank0: the bank that was selected when the operation began;
\* store: the registry outcome Init or ControlRegReset met (index into
\* StoreCases), else 0
OpRecStore(name, a, b, ret, wave, midi, store) ==
    [name |-> name, a |-> a, b |-> b, ret |-> ret, wave |-> wave, midi |-> midi,
     bank0 |-> hw.bank, store |-> store]

OpRec(name, a, b, ret, wave, midi) == OpRecStore(name, a, b, ret, wave, midi, 0)

Idle == [pc |-> "idle", todo |-> <<>>, busy |-> 0]

\* a miniport object: where it is in its life, and whether its m_AdapterCommon
\* holds a reference to the adapter
NewMiniport == [life |-> "created", m_AdapterCommon |-> FALSE]

(***************************************************************************)
(* The MIDI miniport's stream counters, capture state and input ring       *)
(* buffer.  sv is the position of a ServiceMidiISR in progress, rd the     *)
(* position of a stream Read in progress.  The remaining fields observe:   *)
(* rx counts the bytes taken from the receive FIFO (the k-th has the value *)
(* RxByte(k)), pending lists the bytes stored and neither read nor         *)
(* discarded since (stamp k, slot written, late: the indices were reset    *)
(* between its fetch and its store), rxAtStop is rx at the most recent     *)
(* SetState(KSSTATE_STOP), resets counts the index resets and n counts the *)
(* stream operations issued.                                               *)
(***************************************************************************)
KSSTATE_STOP == 0
KSSTATE_ACQUIRE == 1
KSSTATE_PAUSE == 2
KSSTATE_RUN == 3
MIDI_INPUT_BUFFER_SIZE == 256
kMaxMidiCaptureStreams == 1
kMaxMidiRenderStreams == 1
MaxStreamOps == 5

\* m_InputBuffer is kept as the slots written since RtlZeroMemory cleared the
\* array; every other slot reads as zero
ZeroMemory == [i \in {} |-> 0]
BufferAt(buf, i) == IF i \in DOMAIN buf THEN buf[i] ELSE 0
BufferPut(buf, i, v) == [j \in (DOMAIN buf) \cup {i} |-> IF j = i THEN v ELSE buf[j]]

SvIdle == [pc |-> "idle", avail |-> 0, bytesDrained |-> 0, dataByte |-> 0,
           stamp |-> 0, nextTail |-> 0, tail0 |-> 0, resets0 |-> 0,
           newBytesAvailable |-> FALSE]
RdIdle == [pc |-> "idle", count |-> 0, Length |-> 0, out |-> <<>>]

RingInit ==
    [m_KSStateInput      |-> KSSTATE_STOP,
     m_NumCaptureStreams |-> 0,
     m_NumRenderStreams  |-> 0,
     m_InputBuffer       |-> ZeroMemory,
     m_InputBufferHead   |-> 0,
     m_InputBufferTail   |-> 0,
     sv |-> SvIdle, rd |-> RdIdle,
     rx |-> 0, pending |-> <<>>, rxAtStop |-> 0, resets |-> 0,
     n |-> 0]

(***************************************************************************)
(* The wave miniport (unnamed/part_001, minwave.h): MMA registers of the   *)
(* digital audio engine, the formats a client may ask for, the two stream  *)
(* objects, the slave DMA channel and the MMA chip behind base+4/5.        *)
(***************************************************************************)
MMA_REG_PLAYBACK == 9
MMA_REG_PCM_DATA == 11
MMA_REG_FORMAT == 12

MMA_PB_RST == 128
MMA_PB_RIGHT == 64
MMA_PB_LEFT == 32
MMA_PB_FREQ_SHIFT == 3
MMA_PB_PCM == 4
MMA_PB_PLAYBACK == 2
MMA_PB_GO == 1

MMA_FREQ_44100 == 0
MMA_FREQ_22050 == 1
MMA_FREQ_11025 == 2
MMA_FREQ_7350 == 3

MMA_FMT_DATA_SHIFT == 5
MMA_FMT_FIFO_SHIFT == 2
MMA_FMT_MSK == 2
MMA_FMT_ENB == 1
MMA_DATA_FMT_8BIT == 0
MMA_DATA_FMT_12B_2 == 2
MMA_FIFO_THR_DEFAULT == 5
MMA_FIFO_SIZE == 128

LFSR_SEED == 44257

SupportedSampleRates == <<44100, 22050, 11025, 7350>>

\* m_DmaChannel->BufferSize(): the cyclic buffer ProcessResources allocated
DmaBufferSize == 2048

\* the WAVEFORMATEX a client passes; pcm: the KSDATAFORMAT is audio / PCM /
\* WAVEFORMATEX of sufficient size with wFormatTag WAVE_FORMAT_PCM
WaveFormat(rate, bits, channels, pcm) ==
    [nSamplesPerSec |-> rate, wBitsPerSample |-> bits, nChannels |-> channels,
     pcm |-> pcm]

WaveFormats ==
    << WaveFormat(44100, 16, 2, TRUE),
       WaveFormat(44100, 8, 1, TRUE),
       WaveFormat(22050, 8, 2, TRUE),
       WaveFormat(8000, 16, 2, TRUE),
       WaveFormat(44100, 16, 2, FALSE) >>

WaveFormatInputs == 1..5

\* a stream object that does not exist.  rate: the sample rate of the last
\* NewStream or SetFormat that succeeded on the stream; ran: the stream has
\* been in KSSTATE_RUN since it was created; irq: a sampling interrupt was
\* dispatched to the wave consumer while the stream ran in PIO mode and
\* FillFifo has not run since
NoStream ==
    [live |-> FALSE, m_16Bit |-> FALSE, m_Stereo |-> FALSE,
     m_State |-> KSSTATE_STOP, m_SoftwarePosition |-> 0,
     m_LfsrState |-> LFSR_SEED, rate |-> 0, ran |-> FALSE, irq |-> FALSE]

\* the slave DMA channel: Start(size, writeToDevice) / Stop
DmaStopped == [running |-> FALSE, toDevice |-> FALSE]

\* the MMA behind base+4 (address latch) and base+5 (data): regs holds the
\* last byte written to each register, fifo counts the bytes written to the
\* PCM data register
MmaReset == [addr |-> 0, regs |-> [i \in {} |-> 0], fifo |-> 0]

\* CMiniportWaveCyclicAdLibGold::Init leaves no stream allocated at 44100 Hz.
\* The remaining fields observe: nCapture, nRender count the stream objects
\* of each direction that exist, freed holds the directions (TRUE capture)
\* of which a stream has been destroyed, slept tells that the adapter has
\* been put below Standby1, notified that the port has been notified and
\* its service routine has not run yet, n counts the calls made
WaveInit ==
    [m_CaptureAllocated |-> FALSE, m_RenderAllocated |-> FALSE,
     m_SamplingFrequency |-> 44100,
     capture |-> NoStream, render |-> NoStream,
     dma |-> DmaStopped, mma |-> MmaReset,
     nCapture |-> 0, nRender |-> 0, freed |-> {}, slept |-> FALSE,
     notified |-> FALSE, n |-> 0]

\* no interrupt in progress; otherwise pc is the position in
\* InterruptServiceRoutine, mma the MMA status it read, fm whether the FM
\* timer source is pending and tested the slot content its last test read
IsrIdle == [pc |-> "idle", mma |-> 0, fm |-> FALSE, tested |-> NULL]

Init ==
    /\ adapter = "new"
    /\ connected = FALSE
    /\ m_PowerState = PowerDeviceUnspecified
    /\ m_ControlRegs = [i \in 0..(CTRL_REG_MAX - 1) |-> 0]
    /\ m_CardModel = 0
    /\ m_CardOptions = 0
    /\ m_pWaveMiniport = NULL
    /\ m_pMidiMiniport = NULL
    /\ \E b \in {"Control", "OPL3"}, id \in IdInputs :
          hw = [bank |-> b, ctrlIdx |-> 0, id |-> id,
                regs |-> [i \in 0..(CTRL_REG_MAX - 1) |-> PowerOnFill],
                eeprom |-> [i \in 0..(CTRL_REG_MAX - 1) |-> EepromFill],
                fm0Addr |-> 0, fm0Last |-> <<>>,
                fm1Addr |-> 0, fm1Last |-> <<>>]
    /\ ports = <<>>
    /\ op = OpRec("none", 0, 0, "", 0, 0)
    /\ call = Idle
    /\ miniports = [wave |-> NewMiniport, midi |-> NewMiniport]
    /\ isr = IsrIdle
    /\ ring = RingInit
    /\ audio = WaveInit
    /\ nops = 0

Commit(m) ==
    /\ hw' = m.hw
    /\ m_ControlRegs' = m.regs
    /\ m_PowerState' = m.ps
    /\ ports' = m.log

Ready == adapter = "ready" /\ call.pc = "idle" /\ nops < MaxOps

\* the state CAdapterCommon::Init leaves, r being what AdapterInit computed
AdapterInitCommit(r, busy, store) ==
    /\ Commit(r.m)
    /\ adapter' = IF r.status = STATUS_SUCCESS THEN "ready" ELSE "failed"
    /\ connected' = r.connected
    /\ m_CardModel' = IF r.probed
                      THEN BitAnd(r.idByte, CTRL_ID_MODEL_MASK)
                      ELSE m_CardModel
    /\ m_CardOptions' = IF r.probed THEN r.idByte ELSE m_CardOptions
    /\ op' = OpRecStore("Init", busy, IF r.probed THEN r.idByte ELSE -1, r.status,
                        0, 0, store)

AdapterInitAct ==
    /\ adapter = "new"
    /\ \E busy \in BusyInputs, irqOk \in BOOLEAN, store \in StoreInputs :
          AdapterInitCommit(AdapterInit(Mach(<<>>), busy, irqOk, StoreCases[store]),
                            busy, store)
    /\ m_pWaveMiniport' = NULL
    /\ m_pMidiMiniport' = NULL
    /\ UNCHANGED <<audio, ring, isr, miniports, call, nops>>

ControlRegWriteAct ==
    /\ Ready
    /\ \E Register \in RegInputs, Value \in ValInputs, busy \in BusyInputs :
          /\ Commit(ControlRegWrite(Mach(<<>>), Register, Value, busy))
          /\ op' = OpRec("ControlRegWrite", Register, Value, "", 0, 0)
    /\ nops' = nops + 1
    /\ UNCHANGED <<audio, ring, isr, miniports, adapter, connected, m_CardModel, m_CardOptions,
                   m_pWaveMiniport, m_pMidiMiniport, call>>

ControlRegReadAct ==
    /\ Ready
    /\ \E Register \in RegInputs :
          op' = OpRec("ControlRegRead", Register,
                      ControlRegRead(m_ControlRegs, Register), "", 0, 0)
    /\ ports' = <<>>
    /\ nops' = nops + 1
    /\ UNCHANGED <<audio, ring, isr, miniports, adapter, connected, m_PowerState, m_ControlRegs, m_CardModel,
                   m_CardOptions, m_pWaveMiniport, m_pMidiMiniport, hw, call>>

PowerChangeStateAct ==
    /\ Ready
    /\ \E NewState \in PowerInputs, busy \in BusyInputs :
          /\ Commit(PowerChangeState(Mach(<<>>), NewState, busy))
          /\ op' = OpRec("PowerChangeState", NewState, m_PowerState, "", 0, 0)
    /\ nops' = nops + 1
    /\ UNCHANGED <<audio, ring, isr, miniports, adapter, connected, m_CardModel, m_CardOptions,
                   m_pWaveMiniport, m_pMidiMiniport, call>>

\* CAdapterCommon::EnableControlBank
EnableControlBankAct ==
    /\ Ready
    /\ Commit(PortW(Mach(<<>>), ALG_REG_FM1_ADDR, ALG_BANK_CONTROL))
    /\ op' = OpRec("EnableControlBank", 0, 0, "", 0, 0)
    /\ nops' = nops + 1
    /\ UNCHANGED <<audio, ring, isr, miniports, adapter, connected, m_CardModel, m_CardOptions,
                   m_pWaveMiniport, m_pMidiMiniport, call>>

\* CAdapterCommon::EnableOPL3Bank1
EnableOPL3Bank1Act ==
    /\ Ready
    /\ Commit(PortW(Mach(<<>>), ALG_REG_FM1_ADDR, ALG_BANK_OPL3))
    /\ op' = OpRec("EnableOPL3Bank1", 0, 0, "", 0, 0)
    /\ nops' = nops + 1
    /\ UNCHANGED <<audio, ring, isr, miniports, adapter, connected, m_CardModel, m_CardOptions,
                   m_pWaveMiniport, m_pMidiMiniport, call>>

\* CAdapterCommon::SetWaveMiniport
SetWaveMiniportAct ==
    /\ Ready
    /\ \E Miniport \in {NULL, WaveMiniport} :
          /\ m_pWaveMiniport' = Miniport
          /\ op' = OpRec("SetWaveMiniport", IF Miniport = NULL THEN 0 ELSE 1, 0, "", 0, 0)
    /\ ports' = <<>>
    /\ nops' = nops + 1
    /\ UNCHANGED <<audio, ring, isr, miniports, adapter, connected, m_PowerState, m_ControlRegs, m_CardModel,
                   m_CardOptions, m_pMidiMiniport, hw, call>>

\* CAdapterCommon::SetMidiMiniport
SetMidiMiniportAct ==
    /\ Ready
    /\ \E Miniport \in {NULL, MidiMiniport} :
          /\ m_pMidiMiniport' = Miniport
          /\ op' = OpRec("SetMidiMiniport", IF Miniport = NULL THEN 0 ELSE 1, 0, "", 0, 0)
    /\ ports' = <<>>
    /\ nops' = nops + 1
    /\ UNCHANGED <<audio, ring, isr, miniports, adapter, connected, m_PowerState, m_ControlRegs, m_CardModel,
                   m_CardOptions, m_pWaveMiniport, hw, call>>

WriteOPL3Act ==
    /\ Ready
    /\ \E Address \in Opl3AddressInputs, Data \in Opl3DataInputs :
          /\ Commit(WriteOPL3(Mach(<<>>), Address, Data))
          /\ op' = OpRec("WriteOPL3", Address, Data, "", 0, 0)
    /\ nops' = nops + 1
    /\ UNCHANGED <<audio, ring, isr, miniports, adapter, connected, m_CardModel, m_CardOptions,
                   m_pWaveMiniport, m_pMidiMiniport, call>>

\* the state SaveToEEPROM leaves, r being what it computed
SaveToEEPROMCommit(r, busy) ==
    /\ Commit(r.m)
    /\ op' = OpRec("SaveToEEPROM", busy, 0, r.status, 0, 0)

SaveToEEPROMAct ==
    /\ Ready
    /\ \E busy \in BusyInputs :
          SaveToEEPROMCommit(SaveToEEPROM(Mach(<<>>), busy), busy)
    /\ nops' = nops + 1
    /\ UNCHANGED <<audio, ring, isr, miniports, adapter, connected, m_CardModel, m_CardOptions,
                   m_pWaveMiniport, m_pMidiMiniport, call>>

\* the state RestoreFromEEPROM leaves, r being what it computed: the model
\* fields are refreshed from the cache only on the path that read it back
RestoreFromEEPROMCommit(r, busy) ==
    /\ Commit(r.m)
    /\ m_CardModel' = IF r.status = STATUS_SUCCESS
                      THEN BitAnd(r.m.regs[CTRL_REG_CONTROL_ID], CTRL_ID_MODEL_MASK)
                      ELSE m_CardModel
    /\ m_CardOptions' = IF r.status = STATUS_SUCCESS
                        THEN r.m.regs[CTRL_REG_CONTROL_ID]
                        ELSE m_CardOptions
    /\ op' = OpRec("RestoreFromEEPROM", busy, 0, r.status, 0, 0)

RestoreFromEEPROMAct ==
    /\ Ready
    /\ \E busy \in BusyInputs :
          RestoreFromEEPROMCommit(RestoreFromEEPROM(Mach(<<>>), busy), busy)
    /\ nops' = nops + 1
    /\ UNCHANGED <<audio, ring, isr, miniports, adapter, connected, m_pWaveMiniport, m_pMidiMiniport, call>>

(***************************************************************************)
(* The interrupt: runs at device IRQL, so it is atomic with respect to the *)
(* call context, and it can arrive whenever the routine is connected --    *)
(* also between two port accesses of a call that is not synchronised.      *)
(***************************************************************************)
\* the status bytes for which the dispatcher goes on to read the MMA status
ReadsMma(status) ==
    /\ BitAnd(status, ALG_STATUS_IRQ_MASK) # ALG_STATUS_IRQ_MASK
    /\ BitAnd(status, ALG_STATUS_SMP_IRQ) = 0

IsrAct ==
    /\ adapter = "ready"
    /\ connected
    /\ nops < MaxOps
    /\ \E status \in StatusInputs :
       \E mma \in IF ReadsMma(status) THEN MmaInputs ELSE {0} :
       \E avail \in IF ReadsMma(status) /\ BitAnd(mma, MMA_STATUS_RRQ) # 0
                       /\ m_pMidiMiniport # NULL /\ m_PowerState <= PowerDeviceD1
                    THEN RrqInputs ELSE {0} :
          LET r == InterruptServiceRoutine(Mach(<<>>), m_pWaveMiniport,
                                           m_pMidiMiniport, status, mma, avail)
          IN  /\ hw' = r.m.hw
              /\ m_ControlRegs' = r.m.regs
              /\ m_PowerState' = r.m.ps
              /\ ports' = IF call.pc = "idle" THEN r.m.log ELSE ports
              /\ op' = OpRec("Isr", status, r.mma, r.ret, r.wave, r.midi)
    /\ nops' = nops + 1
    /\ UNCHANGED <<audio, ring, isr, miniports, adapter, connected, m_CardModel, m_CardOptions,
                   m_pWaveMiniport, m_pMidiMiniport, call>>

Next ==
    \/ AdapterInitAct
    \/ ControlRegWriteAct
    \/ ControlRegReadAct
    \/ PowerChangeStateAct
    \/ EnableControlBankAct
    \/ EnableOPL3Bank1Act
    \/ SetWaveMiniportAct
    \/ SetMidiMiniportAct
    \/ IsrAct

Spec == Init /\ [][Next]_vars

(***************************************************************************)
(* The EEPROM and synthesizer entry points next to the register writes and *)
(* power transitions that set the stage for them.                          *)
(***************************************************************************)
NextEeprom ==
    \/ AdapterInitAct
    \/ ControlRegWriteAct
    \/ PowerChangeStateAct
    \/ EnableControlBankAct
    \/ WriteOPL3Act
    \/ SaveToEEPROMAct
    \/ RestoreFromEEPROMAct

SpecEeprom == Init /\ [][NextEeprom]_vars

(***************************************************************************)
(* ControlRegReset as the topology miniport calls it (algtopo.cpp), with   *)
(* every registry outcome.                                                 *)
(***************************************************************************)
ControlRegResetAct ==
    /\ Ready
    /\ \E store \in ResetStoreInputs, busy \in BusyInputs :
          /\ Commit(ControlRegReset(Mach(<<>>), StoreCases[store], busy))
          /\ op' = OpRecStore("ControlRegReset", busy, 0, "", 0, 0, store)
    /\ nops' = nops + 1
    /\ UNCHANGED <<audio, ring, isr, miniports, adapter, connected, m_CardModel, m_CardOptions,
                   m_pWaveMiniport, m_pMidiMiniport, call>>

NextReset ==
    \/ AdapterInitAct
    \/ ControlRegResetAct
    \/ ControlRegWriteAct
    \/ PowerChangeStateAct

SpecReset == Init /\ [][NextReset]_vars

(***************************************************************************)
(* The topology miniport's volume handler (algtopo.cpp).  It calls         *)
(* ControlRegWrite directly from the property request, outside any         *)
(* CallSynchronizedRoutine, so each port access of the write is a step of  *)
(* its own and the interrupt may be taken between two of them.             *)
(***************************************************************************)
CHAN_MASTER == -1
CHAN_LEFT == 0
CHAN_RIGHT == 1

\* NodeRegMap[], indexed by node id + 1
NodeRegMap ==
    << [RegLeft |-> 11, RegRight |-> 12, MinVal |-> 128, MaxVal |-> 255],
       [RegLeft |-> 9,  RegRight |-> 10, MinVal |-> 128, MaxVal |-> 255],
       [RegLeft |-> 13, RegRight |-> 14, MinVal |-> 128, MaxVal |-> 255],
       [RegLeft |-> 15, RegRight |-> 0,  MinVal |-> 128, MaxVal |-> 255],
       [RegLeft |-> 4,  RegRight |-> 5,  MinVal |-> 192, MaxVal |-> 255] >>

NodeInputs == {3, 4}
ChannelInputs == {CHAN_MASTER, CHAN_RIGHT}
LevelInputs == {300}

\* PropertyHandler_Level, SET verb: the ControlRegWrite calls it makes, in order
LevelSetWrites(node, channel, x) ==
    LET map == NodeRegMap[node + 1]
        v0  == x % 256
        v1  == IF v0 < map.MinVal THEN map.MinVal ELSE v0
        val == IF v1 > map.MaxVal THEN map.MaxVal ELSE v1
    IN  IF channel = CHAN_RIGHT /\ map.RegRight # 0
        THEN << <<map.RegRight, val>> >>
        ELSE IF channel = CHAN_LEFT \/ map.RegRight = 0
        THEN << <<map.RegLeft, val>> >>
        ELSE << <<map.RegLeft, val>>, <<map.RegRight, val>> >>

\* one statement of ControlRegWrite, selected by the position pc
ControlRegWriteStmt(pc, m, Register, Value, busy) ==
    CASE pc = "select"  -> PortW(m, ALG_REG_FM1_ADDR, ALG_BANK_CONTROL)
      [] pc = "poll"    -> WaitForReady(m, busy)
      [] pc = "index"   -> PortW(m, ALG_REG_FM1_ADDR, Register)
      [] pc = "data"    -> PortW(m, ALG_REG_FM1_DATA, Value)
      [] pc = "settle"  -> IF Register >= 4 /\ Register <= 8
                           THEN WaitForReady(m, busy)
                           ELSE IF Register >= 9 /\ Register <= 22
                           THEN Stall(m, 5)
                           ELSE m
      [] pc = "restore" -> PortW(m, ALG_REG_FM1_ADDR, ALG_BANK_OPL3)
      [] pc = "cache"   -> IF Register < CTRL_REG_MAX
                           THEN [m EXCEPT !.regs[Register] = Value]
                           ELSE m
      [] OTHER          -> m

\* the position after the statement at pc
ControlRegWriteGoto(pc, ps) ==
    CASE pc = "gate"    -> IF ps <= PowerDeviceD1 THEN "select" ELSE "cache"
      [] pc = "select"  -> "poll"
      [] pc = "poll"    -> "index"
      [] pc = "index"   -> "data"
      [] pc = "data"    -> "settle"
      [] pc = "settle"  -> "restore"
      [] pc = "restore" -> "cache"
      [] OTHER          -> "return"

\* positions after the first and before the last port access of the write
MidWrite == {"poll", "index", "data", "settle", "restore"}

LevelSetAct ==
    /\ Ready
    /\ \E node \in NodeInputs, channel \in ChannelInputs, x \in LevelInputs,
          busy \in BusyInputs :
          /\ call' = [pc |-> "gate", todo |-> LevelSetWrites(node, channel, x),
                      busy |-> busy]
          /\ op' = OpRec("PropertyHandler_Level", node, x, "", 0, 0)
    /\ ports' = <<>>
    /\ nops' = nops + 1
    /\ UNCHANGED <<audio, ring, isr, miniports, adapter, connected, m_PowerState, m_ControlRegs, m_CardModel,
                   m_CardOptions, m_pWaveMiniport, m_pMidiMiniport, hw>>

ControlRegWriteStep ==
    /\ call.pc # "idle"
    /\ LET Register == Head(call.todo)[1]
           Value    == Head(call.todo)[2]
           goto     == ControlRegWriteGoto(call.pc, m_PowerState)
       IN  /\ Commit(ControlRegWriteStmt(call.pc, Mach(ports), Register, Value,
                                         call.busy))
           /\ op' = OpRec("ControlRegWriteStep", Register, Value, call.pc, 0, 0)
           /\ call' = IF goto # "return" THEN [call EXCEPT !.pc = goto]
                      ELSE IF Tail(call.todo) = <<>> THEN Idle
                      ELSE [call EXCEPT !.pc = "gate", !.todo = Tail(call.todo)]
    /\ UNCHANGED <<audio, ring, isr, miniports, adapter, connected, m_CardModel, m_CardOptions,
                   m_pWaveMiniport, m_pMidiMiniport, nops>>

NextIrq ==
    \/ AdapterInitAct
    \/ LevelSetAct
    \/ ControlRegWriteStep
    \/ IsrAct

SpecIrq == Init /\ [][NextIrq]_vars

(***************************************************************************)
(* The miniports (unnamed/part_001, midi.cpp).  Each registers itself in   *)
(* its consumer slot from Init and unregisters from its destructor; these  *)
(* are the only callers of SetWaveMiniport and SetMidiMiniport.            *)
(***************************************************************************)
\* CAdapterCommon::WriteMMA
WriteMMA(m, Register, Value) ==
    IF m.ps > PowerDeviceD1 THEN m
    ELSE Stall(PortW(Stall(PortW(m, ALG_REG_MMA0_ADDR, Register), 1),
                     ALG_REG_MMA0_DATA, Value), 1)

\* ConfigureDmaAndIrq: the IRQ select field for an interrupt line
IrqSel(irqLine) ==
    CASE irqLine = 3  -> CTRL_IRQ_SEL_3
      [] irqLine = 4  -> CTRL_IRQ_SEL_4
      [] irqLine = 5  -> CTRL_IRQ_SEL_5
      [] irqLine = 7  -> CTRL_IRQ_SEL_7
      [] irqLine = 10 -> CTRL_IRQ_SEL_10
      [] irqLine = 11 -> CTRL_IRQ_SEL_11
      [] irqLine = 12 -> CTRL_IRQ_SEL_12
      [] irqLine = 15 -> CTRL_IRQ_SEL_15
      [] OTHER        -> CTRL_IRQ_SEL_7

\* CMiniportWaveCyclicAdLibGold::ConfigureDmaAndIrq (the fields of reg13 do
\* not overlap, so their sum is their bitwise or)
ConfigureDmaAndIrq(m, irqLine, dmaChan, busy) ==
    ControlRegWrite(m, CTRL_REG_IRQ_DMA0,
                    CTRL_DMA0_ENABLE + (dmaChan % 4) * 2 ^ CTRL_DMA0_SEL_SHIFT
                        + CTRL_IRQ_ENABLE + IrqSel(irqLine),
                    busy)

\* CMiniportWaveCyclicAdLibGold::ProcessResources: machine and status
ProcessResources(m, res, irqLine, dmaChan, busy) ==
    IF res = "counts"
    THEN [m |-> m, status |-> STATUS_DEVICE_CONFIGURATION_ERROR]
    ELSE IF res \in {"channel", "buffer"}
    THEN [m |-> m, status |-> STATUS_INSUFFICIENT_RESOURCES]
    ELSE [m |-> ConfigureDmaAndIrq(m, irqLine, dmaChan, busy),
          status |-> STATUS_SUCCESS]

\* wave Init once ProcessResources returned pr, the slot already holding the
\* miniport: the failure cleanup empties the slot again
WaveInitRegistered(pr) ==
    [m |-> pr.m, status |-> pr.status,
     slot |-> IF pr.status = STATUS_SUCCESS THEN WaveMiniport ELSE NULL,
     m_AdapterCommon |-> pr.status = STATUS_SUCCESS]

\* variant: the failure cleanup leaves the slot as it is
WaveMiniportInit_NoCleanup(m, slot, qiOk, sgOk, res, irqLine, dmaChan, busy) ==
    IF ~qiOk
    THEN [m |-> m, status |-> STATUS_INVALID_PARAMETER, slot |-> slot,
          m_AdapterCommon |-> FALSE]
    ELSE IF ~sgOk
    THEN [m |-> m, status |-> STATUS_INSUFFICIENT_RESOURCES, slot |-> slot,
          m_AdapterCommon |-> FALSE]
    ELSE [WaveInitRegistered(ProcessResources(m, res, irqLine, dmaChan, busy))
            EXCEPT !.slot = WaveMiniport]

\* CMiniportWaveCyclicAdLibGold::Init.  slot is the wave consumer slot on
\* entry; qiOk, sgOk: QueryInterface and PcNewServiceGroup succeeded
WaveMiniportInit(m, slot, qiOk, sgOk, res, irqLine, dmaChan, busy) ==
    IF ~qiOk
    THEN [m |-> m, status |-> STATUS_INVALID_PARAMETER, slot |-> slot,
          m_AdapterCommon |-> FALSE]
    ELSE IF ~sgOk
    THEN [m |-> m, status |-> STATUS_INSUFFICIENT_RESOURCES, slot |-> NULL,
          m_AdapterCommon |-> FALSE]
    ELSE WaveInitRegistered(ProcessResources(m, res, irqLine, dmaChan, busy))

\* MIDI Init: for (drain = 0; drain < 16; drain++) over a FIFO offering avail bytes
RECURSIVE MidiInitDrain(_, _, _)
MidiInitDrain(m, avail, drain) ==
    IF drain < MidiInitDrainLimit THEN
        LET chip      == IF drain < avail THEN MMA_STATUS_RRQ ELSE 0
            mmaStatus == ReadMMAValue(m, chip)
            m1        == ReadMMA(m, MMA_REG_STATUS, chip)
        IN  IF BitAnd(mmaStatus, MMA_STATUS_RRQ) = 0 THEN m1
            ELSE MidiInitDrain(ReadMMA(m1, MMA_REG_MIDI_DATA, MidiByte(drain + 1)),
                               avail, drain + 1)
    ELSE m

\* both MIDI circuits held in reset with every MIDI interrupt masked
MidiResetAll ==
    MMA_MIDI_MSK_POV + MMA_MIDI_MSK_MOV + MMA_MIDI_TRS_RST + MMA_MIDI_MSK_TRQ
        + MMA_MIDI_RCV_RST + MMA_MIDI_MSK_RRQ

\* reset released with every MIDI interrupt still masked
MidiMaskAll ==
    MMA_MIDI_MSK_POV + MMA_MIDI_MSK_MOV + MMA_MIDI_MSK_TRQ + MMA_MIDI_MSK_RRQ

\* CMiniportMidiUartAdLibGold::Init.  given: UnknownAdapter is not NULL
MidiMiniportInit(m, slot, given, qiOk, sgOk, avail) ==
    IF ~given \/ ~qiOk
    THEN [m |-> m, status |-> STATUS_INVALID_PARAMETER, slot |-> slot,
          m_AdapterCommon |-> FALSE]
    ELSE IF ~sgOk
    THEN [m |-> m, status |-> STATUS_INSUFFICIENT_RESOURCES, slot |-> slot,
          m_AdapterCommon |-> FALSE]
    ELSE [m |-> MidiInitDrain(
                    WriteMMA(WriteMMA(m, MMA_REG_MIDI_CTRL, MidiResetAll),
                             MMA_REG_MIDI_CTRL, MMA_MIDI_CTRL_DEFAULT),
                    avail, 0),
          status |-> STATUS_SUCCESS, slot |-> MidiMiniport,
          m_AdapterCommon |-> TRUE]

\* ~CMiniportWaveCyclicAdLibGold: the slot it leaves
WaveMiniportDestroy(slot, ref) == IF ref THEN NULL ELSE slot

\* ~CMiniportMidiUartAdLibGold: machine and slot it leaves
MidiMiniportDestroy(m, slot, ref) ==
    IF ref
    THEN [m |-> WriteMMA(WriteMMA(m, MMA_REG_MIDI_CTRL, MidiResetAll),
                         MMA_REG_MIDI_CTRL, MidiMaskAll),
          slot |-> NULL]
    ELSE [m |-> m, slot |-> slot]

\* the miniport object after an Init that computed r
AfterInit(r) ==
    [life |-> IF r.status = STATUS_SUCCESS THEN "initialized" ELSE "failed",
     m_AdapterCommon |-> r.m_AdapterCommon]

Destroyed == [life |-> "destroyed", m_AdapterCommon |-> FALSE]


WaveInitCommit(r, busy) ==
    /\ Commit(r.m)
    /\ m_pWaveMiniport' = r.slot
    /\ miniports' = [miniports EXCEPT !.wave = AfterInit(r)]
    /\ op' = OpRec("WaveInit", busy, 0, r.status, 0, 0)

WaveInitAct ==
    /\ Ready
    /\ miniports.wave.life = "created"
    /\ \E qiOk \in BOOLEAN, sgOk \in BOOLEAN, res \in ResourceInputs,
          irqLine \in IrqLineInputs, dmaChan \in DmaChannelInputs,
          busy \in BusyInputs :
          WaveInitCommit(WaveMiniportInit(Mach(<<>>), m_pWaveMiniport, qiOk, sgOk,
                                          res, irqLine, dmaChan, busy), busy)
    /\ nops' = nops + 1
    /\ UNCHANGED <<audio, ring, isr, adapter, connected, m_CardModel, m_CardOptions,
                   m_pMidiMiniport, call>>

WaveDestroyAct ==
    /\ Ready
    /\ miniports.wave.life # "destroyed"
    /\ m_pWaveMiniport' = WaveMiniportDestroy(m_pWaveMiniport,
                                              miniports.wave.m_AdapterCommon)
    /\ miniports' = [miniports EXCEPT !.wave = Destroyed]
    /\ op' = OpRec("WaveDestroy", IF miniports.wave.m_AdapterCommon THEN 1 ELSE 0,
                   0, "", 0, 0)
    /\ ports' = <<>>
    /\ nops' = nops + 1
    /\ UNCHANGED <<audio, ring, isr, adapter, connected, m_PowerState, m_ControlRegs, m_CardModel,
                   m_CardOptions, m_pMidiMiniport, hw, call>>

MidiInitCommit(r, avail) ==
    /\ Commit(r.m)
    /\ m_pMidiMiniport' = r.slot
    /\ miniports' = [miniports EXCEPT !.midi = AfterInit(r)]
    /\ op' = OpRec("MidiInit", avail, 0, r.status, 0, 0)

MidiInitAct ==
    /\ Ready
    /\ miniports.midi.life = "created"
    /\ \E given \in BOOLEAN, qiOk \in BOOLEAN, sgOk \in BOOLEAN,
          avail \in RrqInputs :
          MidiInitCommit(MidiMiniportInit(Mach(<<>>), m_pMidiMiniport, given, qiOk,
                                          sgOk, avail), avail)
    /\ nops' = nops + 1
    /\ UNCHANGED <<audio, ring, isr, adapter, connected, m_CardModel, m_CardOptions,
                   m_pWaveMiniport, call>>

MidiDestroyCommit(r) ==
    /\ Commit(r.m)
    /\ m_pMidiMiniport' = r.slot

MidiDestroyAct ==
    /\ Ready
    /\ miniports.midi.life # "destroyed"
    /\ MidiDestroyCommit(MidiMiniportDestroy(Mach(<<>>), m_pMidiMiniport,
                                             miniports.midi.m_AdapterCommon))
    /\ miniports' = [miniports EXCEPT !.midi = Destroyed]
    /\ op' = OpRec("MidiDestroy", IF miniports.midi.m_AdapterCommon THEN 1 ELSE 0,
                   0, "", 0, 0)
    /\ nops' = nops + 1
    /\ UNCHANGED <<audio, ring, isr, adapter, connected, m_CardModel, m_CardOptions,
                   m_pWaveMiniport, call>>

NextMiniports ==
    \/ AdapterInitAct
    \/ WaveInitAct
    \/ WaveDestroyAct
    \/ MidiInitAct
    \/ MidiDestroyAct
    \/ PowerChangeStateAct
    \/ IsrAct

SpecMiniports == Init /\ [][NextMiniports]_vars

(***************************************************************************)
(* The interrupt taken on one processor while a miniport is initialised or *)
(* destroyed on another.  SetWaveMiniport and SetMidiMiniport are plain    *)
(* stores made outside the interrupt's synchronisation, so they may fall   *)
(* between any two statements of InterruptServiceRoutine.  The routine     *)
(* tests a slot and then calls through it; the call may use the pointer    *)
(* the test read or read the slot again.                                   *)
(***************************************************************************)
AvailInputs == {0, 1}

\* the slot contents a call made after the test may go through
CallTargets(tested, slot) == {tested, slot}

\* 1 when a call goes through a miniport pointer, 0 when through NULL
Through(ptr) == IF ptr = NULL THEN 0 ELSE 1

\* entry to the first test: status probe, not-mine check, MMA status read,
\* if (that->m_pWaveMiniport)
IsrEntryGoto(status) ==
    IF BitAnd(status, ALG_STATUS_IRQ_MASK) = ALG_STATUS_IRQ_MASK THEN "idle"
    ELSE IF BitAnd(status, ALG_STATUS_SMP_IRQ) # 0 THEN "fm"
    ELSE IF m_pWaveMiniport # NULL THEN "callWave"
    ELSE "testMidi"

IsrEntryStep ==
    /\ adapter = "ready"
    /\ connected
    /\ isr.pc = "idle"
    /\ nops < MaxOps
    /\ \E status \in StatusInputs :
       \E mma \in IF ReadsMma(status) THEN MmaInputs ELSE {0} :
          /\ Commit(IF ReadsMma(status)
                    THEN PortR(IsrProbe(Mach(<<>>), status), ALG_REG_MMA0_ADDR, mma, 1)
                    ELSE IsrProbe(Mach(<<>>), status))
          /\ isr' = [pc |-> IsrEntryGoto(status), mma |-> mma,
                     fm |-> BitAnd(status, ALG_STATUS_FM_IRQ) = 0,
                     tested |-> m_pWaveMiniport]
          /\ op' = OpRec("IsrEntry", status, mma, "", 0, 0)
    /\ nops' = nops + 1
    /\ UNCHANGED <<audio, ring, miniports, adapter, connected, m_CardModel, m_CardOptions,
                   m_pWaveMiniport, m_pMidiMiniport, call>>

\* that->m_pWaveMiniport->ServiceWaveISR()
IsrCallWaveStep ==
    /\ isr.pc = "callWave"
    /\ \E ptr \in CallTargets(isr.tested, m_pWaveMiniport) :
          op' = OpRec("ServiceWaveISR", Through(ptr), 0, "", 1, 0)
    /\ isr' = [isr EXCEPT !.pc = "testMidi"]
    /\ ports' = <<>>
    /\ UNCHANGED <<audio, ring, miniports, adapter, connected, m_PowerState, m_ControlRegs,
                   m_CardModel, m_CardOptions, m_pWaveMiniport, m_pMidiMiniport,
                   hw, call, nops>>

\* if ((mmaStatus & MMA_STATUS_RRQ) && that->m_pMidiMiniport)
IsrTestMidiStep ==
    /\ isr.pc = "testMidi"
    /\ isr' = [isr EXCEPT !.pc = IF BitAnd(isr.mma, MMA_STATUS_RRQ) # 0
                                    /\ m_pMidiMiniport # NULL
                                 THEN "callMidi" ELSE "fm",
                          !.tested = m_pMidiMiniport]
    /\ op' = OpRec("IsrTestMidi", Through(m_pMidiMiniport), 0, "", 0, 0)
    /\ ports' = <<>>
    /\ UNCHANGED <<audio, ring, miniports, adapter, connected, m_PowerState, m_ControlRegs,
                   m_CardModel, m_CardOptions, m_pWaveMiniport, m_pMidiMiniport,
                   hw, call, nops>>

\* that->m_pMidiMiniport->ServiceMidiISR(): the callback's port accesses
\* happen when the call reaches a miniport
IsrCallMidiStep ==
    /\ isr.pc = "callMidi"
    /\ \E ptr \in CallTargets(isr.tested, m_pMidiMiniport), avail \in AvailInputs :
          /\ Commit(IF ptr # NULL THEN ServiceMidiISR(Mach(<<>>), avail, 0)
                    ELSE Mach(<<>>))
          /\ op' = OpRec("ServiceMidiISR", Through(ptr), avail, "", 0, 1)
    /\ isr' = [isr EXCEPT !.pc = "fm"]
    /\ UNCHANGED <<audio, ring, miniports, adapter, connected, m_CardModel, m_CardOptions,
                   m_pWaveMiniport, m_pMidiMiniport, call, nops>>

\* the FM timer acknowledge and the return
IsrReturnStep ==
    /\ isr.pc = "fm"
    /\ Commit(IF isr.fm THEN PortR(Mach(<<>>), ALG_REG_FM0_ADDR, 0, 1)
              ELSE Mach(<<>>))
    /\ isr' = IsrIdle
    /\ op' = OpRec("IsrReturn", 0, 0, STATUS_SUCCESS, 0, 0)
    /\ UNCHANGED <<audio, ring, miniports, adapter, connected, m_CardModel, m_CardOptions,
                   m_pWaveMiniport, m_pMidiMiniport, call, nops>>

NextSlotRace ==
    \/ AdapterInitAct
    \/ WaveInitAct
    \/ WaveDestroyAct
    \/ MidiInitAct
    \/ MidiDestroyAct
    \/ IsrEntryStep
    \/ IsrCallWaveStep
    \/ IsrTestMidiStep
    \/ IsrCallMidiStep
    \/ IsrReturnStep

SpecSlotRace == Init /\ [][NextSlotRace]_vars

(***************************************************************************)
(* The topology miniport's bass/treble handler (algtopo.cpp,               *)
(* PropertyHandler_Tone).  KS values are LONG in 1/65536 dB units.         *)
(***************************************************************************)
NODE_BASS == 5
NODE_TREBLE == 6
CTRL_REG_BASS == 6
CTRL_REG_TREBLE == 7
CTRL_TONE_FORCED_BITS == 240
CTRL_TONE_MASK == 15

\* requested tone values in dB: the multiples of 3 of both ranges, values
\* between two steps and values beyond either end
ToneDbInputs == {-15, -12, -9, -6, -4, -3, 0, 3, 4, 6, 9, 12, 15, 18}
ToneNodeInputs == {NODE_BASS, NODE_TREBLE}
\* the chip answers the tone writes' busy polls at once
ToneBusyInputs == {0}

\* a LONG holds dB << 16
KsFromDb(dB) == dB * 65536

\* ksValue >> 16 on a LONG: the arithmetic shift rounds towards minus infinity
DbFromKs(ksValue) == ksValue \div 65536

\* C integer division, which truncates towards zero
TruncDiv(a, b) == IF a >= 0 THEN a \div b ELSE -((-a) \div b)

Clamp(x, lo, hi) == IF x < lo THEN lo ELSE IF x > hi THEN hi ELSE x

\* per-node parameters: register, dBMin, dBMax
ToneParams(node) ==
    IF node = NODE_BASS
    THEN [reg |-> CTRL_REG_BASS, dBMin |-> -12, dBMax |-> 15]
    ELSE [reg |-> CTRL_REG_TREBLE, dBMin |-> -12, dBMax |-> 12]

\* variant: GET takes each nibble step as 2 dB
ToneGet_StepTwo(val, dBMin, dBMax) ==
    KsFromDb(Clamp((BitAnd(val, CTRL_TONE_MASK) - 6) * 2, dBMin, dBMax))

\* GET: the KS value for a register byte
ToneGet(val, dBMin, dBMax) ==
    KsFromDb(Clamp((BitAnd(val, CTRL_TONE_MASK) - 6) * 3, dBMin, dBMax))

\* SET: the register byte for a KS value
ToneSet(ksValue, dBMin, dBMax) ==
    CTRL_TONE_FORCED_BITS
        + BitAnd(Clamp(TruncDiv(Clamp(DbFromKs(ksValue), dBMin, dBMax), 3) + 6,
                       0, 15),
                 CTRL_TONE_MASK)

ToneSetAct ==
    /\ Ready
    /\ \E node \in ToneNodeInputs, dB \in ToneDbInputs, busy \in ToneBusyInputs :
          /\ Commit(ControlRegWrite(Mach(<<>>), ToneParams(node).reg,
                                    ToneSet(KsFromDb(dB), ToneParams(node).dBMin,
                                            ToneParams(node).dBMax),
                                    busy))
          /\ op' = OpRec("ToneSet", node, KsFromDb(dB), STATUS_SUCCESS, 0, 0)
    /\ nops' = nops + 1
    /\ UNCHANGED <<audio, ring, isr, miniports, adapter, connected, m_CardModel, m_CardOptions,
                   m_pWaveMiniport, m_pMidiMiniport, call>>

ToneGetAct ==
    /\ Ready
    /\ \E node \in ToneNodeInputs :
          op' = OpRec("ToneGet", node,
                      ToneGet(ControlRegRead(m_ControlRegs, ToneParams(node).reg),
                              ToneParams(node).dBMin, ToneParams(node).dBMax),
                      STATUS_SUCCESS, 0, 0)
    /\ ports' = <<>>
    /\ nops' = nops + 1
    /\ UNCHANGED <<audio, ring, isr, miniports, adapter, connected, m_PowerState, m_ControlRegs,
                   m_CardModel, m_CardOptions, m_pWaveMiniport, m_pMidiMiniport,
                   hw, call>>

NextTone ==
    \/ AdapterInitAct
    \/ ToneSetAct
    \/ ToneGetAct
    \/ ControlRegWriteAct
    \/ PowerChangeStateAct

SpecTone == Init /\ [][NextTone]_vars

(***************************************************************************)
(* ControlRegWrite over the register indices on both sides of each settle  *)
(* range (0x04..0x08 polled, 0x09..0x16 stalled).                          *)
(***************************************************************************)
SettleRegInputs == {0, 3, 4, 8, 9, 22, 23, 24, 255}
SettleBusyInputs == {0, 1}

ControlRegWriteIndexAct ==
    /\ Ready
    /\ \E Register \in SettleRegInputs, Value \in ValInputs,
          busy \in SettleBusyInputs :
          /\ Commit(ControlRegWrite(Mach(<<>>), Register, Value, busy))
          /\ op' = OpRec("ControlRegWrite", Register, Value, "", 0, 0)
    /\ nops' = nops + 1
    /\ UNCHANGED <<audio, ring, isr, miniports, adapter, connected, m_CardModel, m_CardOptions,
                   m_pWaveMiniport, m_pMidiMiniport, call>>

NextSettle ==
    \/ AdapterInitAct
    \/ ControlRegWriteIndexAct
    \/ PowerChangeStateAct

SpecSettle == Init /\ [][NextSettle]_vars

(***************************************************************************)
(* WaitForReady, one pass of its do-while loop at a time.  Each pass reads *)
(* the status port once; the chip may answer anything.  timeout is a       *)
(* ULONG: decrementing zero wraps to 2^32 - 1, which is beyond the         *)
(* checker's integers; the loop and the return only compare timeout with   *)
(* zero, so the largest integer available stands for the wrapped value.    *)
(***************************************************************************)
WaitStatusInputs == {0, 63, 64, 128, 192}
ULONG_WRAPPED == 2147483647

UlongDec(t) == IF t = 0 THEN ULONG_WRAPPED ELSE t - 1

\* variant: the loop test decrements timeout after testing it
WaitForReadyPass_PostDecrement(w, status) ==
    LET busy  == BitAnd(status, ALG_STATUS_BUSY_MASK) # 0
        again == busy /\ w.timeout # 0
    IN  [pc      |-> IF again THEN "wait" ELSE "return",
         status  |-> status,
         reads   |-> w.reads + 1,
         timeout |-> IF busy THEN UlongDec(w.timeout) ELSE w.timeout]

\* status = READ_PORT_UCHAR(...); while ((status & BUSY_MASK) && --timeout)
WaitForReadyPass(w, status) ==
    LET busy == BitAnd(status, ALG_STATUS_BUSY_MASK) # 0
        dec  == UlongDec(w.timeout)
    IN  [pc      |-> IF busy /\ dec # 0 THEN "wait" ELSE "return",
         status  |-> status,
         reads   |-> w.reads + 1,
         timeout |-> IF busy THEN dec ELSE w.timeout]

\* entry: ULONG timeout = 1000
WaitForReadyCallAct ==
    /\ call.pc = "idle"
    /\ nops < MaxOps
    /\ call' = [pc |-> "wait", status |-> 0, reads |-> 0, timeout |-> WaitTimeout]
    /\ op' = OpRec("WaitForReadyCall", 0, 0, "", 0, 0)
    /\ ports' = <<>>
    /\ nops' = nops + 1
    /\ UNCHANGED <<audio, ring, isr, miniports, adapter, connected, m_PowerState, m_ControlRegs,
                   m_CardModel, m_CardOptions, m_pWaveMiniport, m_pMidiMiniport, hw>>

\* one pass; after the last one, return (timeout > 0)
WaitForReadyPassAct ==
    /\ call.pc = "wait"
    /\ \E status \in WaitStatusInputs :
          LET w == WaitForReadyPass(call, status)
          IN  /\ ports' = <<Access("R", ALG_REG_FM1_ADDR, status, w.reads)>>
              /\ IF w.pc = "wait"
                 THEN /\ call' = w
                      /\ op' = OpRec("WaitForReadyPass", w.reads, status, "", 0, 0)
                 ELSE /\ call' = Idle
                      /\ op' = OpRec("WaitForReady", w.reads, status,
                                     IF w.timeout > 0 THEN "TRUE" ELSE "FALSE",
                                     0, 0)
    /\ UNCHANGED <<audio, ring, isr, miniports, adapter, connected, m_PowerState, m_ControlRegs,
                   m_CardModel, m_CardOptions, m_pWaveMiniport, m_pMidiMiniport, hw,
                   nops>>

NextWait ==
    \/ WaitForReadyCallAct
    \/ WaitForReadyPassAct

SpecWait == Init /\ [][NextWait]_vars /\ WF_vars(WaitForReadyPassAct)

(***************************************************************************)
(* The MIDI capture path (midi.cpp): ServiceMidiISR fills the ring buffer  *)
(* at device interrupt level, the stream's Read drains it, SetState,       *)
(* NewStream, the stream destructor and Service are called by the port     *)
(* driver.  The miniport takes no lock in any of them, so an interrupt on  *)
(* one processor runs statement by statement between the statements of a   *)
(* Read, and between the other calls, made on another.                     *)
(***************************************************************************)
RingAvailInputs == {1, 2}
KsStateInputs == {KSSTATE_STOP, KSSTATE_PAUSE, KSSTATE_RUN}
ReadLengthInputs == {1, 3}
\* a run of interrupts no Read interleaves with: fifteen that find 16 bytes
\* each, then one that finds 14
BacklogAvail == [i \in 1..16 |-> IF i <= 15 THEN 16 ELSE 14]

\* the value of the k-th byte the receive FIFO hands over
RxByte(k) == k % 256

\* StartDevice: the adapter's Init, then the MIDI miniport's Init
StartDeviceCommit(r1, r2) ==
    LET ok == r1.status = STATUS_SUCCESS
    IN  /\ Commit(IF ok THEN r2.m ELSE r1.m)
        /\ adapter' = IF ok THEN "ready" ELSE "failed"
        /\ connected' = r1.connected
        /\ m_CardModel' = IF r1.probed
                          THEN BitAnd(r1.idByte, CTRL_ID_MODEL_MASK)
                          ELSE m_CardModel
        /\ m_CardOptions' = IF r1.probed THEN r1.idByte ELSE m_CardOptions
        /\ m_pWaveMiniport' = NULL
        /\ m_pMidiMiniport' = IF ok THEN r2.slot ELSE NULL
        /\ miniports' = IF ok THEN [miniports EXCEPT !.midi = AfterInit(r2)]
                        ELSE miniports
        /\ op' = OpRecStore("StartDevice", 0, IF r1.probed THEN r1.idByte ELSE -1,
                            r1.status, 0, 0, 1)

StartDeviceWith(r1) ==
    StartDeviceCommit(r1, MidiMiniportInit(r1.m, NULL, TRUE, TRUE, TRUE, 0))

StartDeviceAct ==
    /\ adapter = "new"
    /\ StartDeviceWith(AdapterInit(Mach(<<>>), 0, TRUE, StoreCases[1]))
    /\ UNCHANGED <<audio, ring, isr, call, nops>>

\* a stream call or an interrupt can be issued
StreamReady == miniports.midi.life = "initialized" /\ ring.n < MaxStreamOps
\* the port driver makes one stream call at a time
CallerIdle == ring.rd.pc = "idle"

\* what an action of this section leaves alone besides the ports
RingFrame ==
    UNCHANGED <<audio, isr, miniports, adapter, connected, m_PowerState, m_ControlRegs,
                m_CardModel, m_CardOptions, m_pWaveMiniport, m_pMidiMiniport,
                hw, call, nops>>

\* CMiniportMidiUartAdLibGold::NewStream
NewStreamStatus(r, Capture) ==
    IF Capture /\ r.m_NumCaptureStreams >= kMaxMidiCaptureStreams
    THEN STATUS_INVALID_DEVICE_REQUEST
    ELSE IF ~Capture /\ r.m_NumRenderStreams >= kMaxMidiRenderStreams
    THEN STATUS_INVALID_DEVICE_REQUEST
    ELSE STATUS_SUCCESS

NewStream(r, Capture) ==
    IF NewStreamStatus(r, Capture) # STATUS_SUCCESS THEN r
    ELSE IF Capture THEN [r EXCEPT !.m_NumCaptureStreams = @ + 1]
    ELSE [r EXCEPT !.m_NumRenderStreams = @ + 1]

\* a stream with this m_fCapture exists
StreamOpen(r, fCapture) ==
    IF fCapture THEN r.m_NumCaptureStreams > 0 ELSE r.m_NumRenderStreams > 0

\* ~CMiniportMidiStreamUartAdLibGold
StreamDestroy(r, fCapture) ==
    IF fCapture THEN [r EXCEPT !.m_NumCaptureStreams = @ - 1]
    ELSE [r EXCEPT !.m_NumRenderStreams = @ - 1]

\* head = tail = 0, and what that discards
IndexReset(r) ==
    [r EXCEPT !.m_InputBufferHead = 0, !.m_InputBufferTail = 0,
              !.pending = <<>>, !.resets = @ + 1]

\* CMiniportMidiStreamUartAdLibGold::SetState
SetState(r, fCapture, NewState) ==
    IF ~fCapture THEN r
    ELSE LET r1 == [r EXCEPT !.m_KSStateInput = NewState]
         IN  IF NewState = KSSTATE_STOP
             THEN [IndexReset(r1) EXCEPT !.rxAtStop = r.rx]
             ELSE r1

\* CMiniportMidiUartAdLibGold::Service
Service(r) ==
    IF r.m_NumCaptureStreams = 0 THEN IndexReset(r) ELSE r

(***************************************************************************)
(* ServiceMidiISR, one pass of its drain loop in three steps: fetch (the   *)
(* loop test, both ReadMMA calls, the running test and the overflow test), *)
(* store (m_InputBuffer[m_InputBufferTail] = dataByte) and advance         *)
(* (m_InputBufferTail = nextTail).  ps is the adapter's power state, which *)
(* gates ReadMMA.                                                          *)
(***************************************************************************)
RingEnter(r, avail) ==
    [r EXCEPT !.sv = [SvIdle EXCEPT !.pc = "fetch", !.avail = avail]]

\* variant: the overflow test compares the tail itself with the head
RingFetchOutcome_NoSpareSlot(r, ps) ==
    LET chip      == IF r.sv.avail > 0 THEN MMA_STATUS_RRQ ELSE 0
        mmaStatus == IF ps > PowerDeviceD1 THEN 0 ELSE chip
    IN  IF r.sv.bytesDrained >= MidiDrainLimit THEN "limit"
        ELSE IF BitAnd(mmaStatus, MMA_STATUS_RRQ) = 0 THEN "empty"
        ELSE IF r.m_KSStateInput # KSSTATE_RUN \/ r.m_NumCaptureStreams = 0
        THEN "discard"
        ELSE IF r.m_InputBufferTail = r.m_InputBufferHead /\ r.pending # <<>>
        THEN "drop"
        ELSE "store"

RingFetchOutcome(r, ps) ==
    LET chip      == IF r.sv.avail > 0 THEN MMA_STATUS_RRQ ELSE 0
        mmaStatus == IF ps > PowerDeviceD1 THEN 0 ELSE chip
        nextTail  == (r.m_InputBufferTail + 1) % MIDI_INPUT_BUFFER_SIZE
    IN  IF r.sv.bytesDrained >= MidiDrainLimit THEN "limit"
        ELSE IF BitAnd(mmaStatus, MMA_STATUS_RRQ) = 0 THEN "empty"
        ELSE IF r.m_KSStateInput # KSSTATE_RUN \/ r.m_NumCaptureStreams = 0
        THEN "discard"
        ELSE IF nextTail = r.m_InputBufferHead THEN "drop"
        ELSE "store"

RingFetchTo(r, o) ==
    LET stamp == r.rx + 1
    IN  IF o \in {"limit", "empty"} THEN [r EXCEPT !.sv = SvIdle]
        ELSE IF o \in {"discard", "drop"}
        THEN [r EXCEPT !.sv.avail = @ - 1, !.sv.bytesDrained = @ + 1,
                       !.rx = stamp]
        ELSE [r EXCEPT !.sv = [@ EXCEPT
                           !.pc = "store", !.avail = @ - 1,
                           !.bytesDrained = @ + 1,
                           !.dataByte = RxByte(stamp), !.stamp = stamp,
                           !.nextTail = (r.m_InputBufferTail + 1)
                                            % MIDI_INPUT_BUFFER_SIZE,
                           !.tail0 = r.m_InputBufferTail,
                           !.resets0 = r.resets],
                       !.rx = stamp]

RingFetch(r, ps) == RingFetchTo(r, RingFetchOutcome(r, ps))

\* idx: the tail as the store statement reads it
RingStore(r, idx) ==
    [r EXCEPT !.m_InputBuffer = BufferPut(@, idx, r.sv.dataByte),
              !.pending = Append(@, [stamp |-> r.sv.stamp, slot |-> idx,
                                     late |-> r.resets # r.sv.resets0]),
              !.sv.pc = "advance"]

RingAdvance(r) ==
    [r EXCEPT !.m_InputBufferTail = r.sv.nextTail,
              !.sv.pc = "fetch", !.sv.newBytesAvailable = TRUE]

\* ServiceMidiISR from its entry to its return with nothing in between
\* one pass of the drain loop, fetched being the ring after its fetch
RingPassFrom(fetched) ==
    IF fetched.sv.pc = "store"
    THEN RingAdvance(RingStore(fetched, fetched.sv.tail0))
    ELSE fetched

RECURSIVE ServiceRing(_, _)
ServiceRing(r, ps) ==
    IF r.sv.pc = "idle" THEN r
    ELSE ServiceRing(RingPassFrom(RingFetch(r, ps)), ps)

RECURSIVE RingBacklog(_, _, _)
RingBacklog(r, avails, ps) ==
    IF avails = <<>> THEN r
    ELSE RingBacklog(ServiceRing(RingEnter(r, Head(avails)), ps), Tail(avails), ps)

(***************************************************************************)
(* The stream's Read in three steps per byte: test (the loop condition),   *)
(* copy (the byte at m_InputBuffer[head] goes to the caller's buffer) and  *)
(* bump (head = (head + 1) % size).                                        *)
(***************************************************************************)
\* the stamp of the pending byte in the slot at the head, which Read's next
\* copy takes; -1 if the oldest pending byte is not there
NextDue(r) ==
    IF r.pending # <<>> /\ Head(r.pending).slot = r.m_InputBufferHead
    THEN Head(r.pending).stamp
    ELSE -1

ReadEnter(r, Length) ==
    [r EXCEPT !.rd = [pc |-> "test", count |-> 0, Length |-> Length, out |-> <<>>]]

ReadTest(r) ==
    IF r.m_InputBufferHead # r.m_InputBufferTail /\ r.rd.count < r.rd.Length
    THEN [r EXCEPT !.rd.pc = "copy"]
    ELSE [r EXCEPT !.rd = RdIdle]

\* variant: the copy takes the newest byte
ReadCopy_Newest(r) ==
    [r EXCEPT !.rd.out = Append(@, BufferAt(r.m_InputBuffer,
                  (r.m_InputBufferTail + MIDI_INPUT_BUFFER_SIZE - 1)
                      % MIDI_INPUT_BUFFER_SIZE)),
              !.rd.count = @ + 1,
              !.rd.pc = "bump",
              !.pending = IF NextDue(r) = -1 THEN @ ELSE Tail(@)]

ReadCopy(r) ==
    [r EXCEPT !.rd.out = Append(@, BufferAt(r.m_InputBuffer,
                                            r.m_InputBufferHead)),
              !.rd.count = @ + 1,
              !.rd.pc = "bump",
              !.pending = IF NextDue(r) = -1 THEN @ ELSE Tail(@)]

ReadBump(r) ==
    [r EXCEPT !.m_InputBufferHead = (@ + 1) % MIDI_INPUT_BUFFER_SIZE,
              !.rd.pc = "test"]

Issued(r) == [r EXCEPT !.n = @ + 1]

NewStreamAct ==
    /\ StreamReady
    /\ CallerIdle
    /\ \E Capture \in BOOLEAN :
          /\ ring' = Issued(NewStream(ring, Capture))
          /\ op' = OpRec("NewStream", IF Capture THEN 1 ELSE 0, 0,
                         NewStreamStatus(ring, Capture), 0, 0)
    /\ ports' = <<>>
    /\ RingFrame

StreamDestroyAct ==
    /\ StreamReady
    /\ CallerIdle
    /\ \E fCapture \in BOOLEAN :
          /\ StreamOpen(ring, fCapture)
          /\ ring' = Issued(StreamDestroy(ring, fCapture))
          /\ op' = OpRec("StreamDestroy", IF fCapture THEN 1 ELSE 0, 0, "", 0, 0)
    /\ ports' = <<>>
    /\ RingFrame

SetStateAct ==
    /\ StreamReady
    /\ CallerIdle
    /\ \E fCapture \in BOOLEAN, NewState \in KsStateInputs :
          /\ StreamOpen(ring, fCapture)
          /\ ring' = Issued(SetState(ring, fCapture, NewState))
          /\ op' = OpRec("SetState", IF fCapture THEN 1 ELSE 0, NewState,
                         STATUS_SUCCESS, 0, 0)
    /\ ports' = <<>>
    /\ RingFrame

ServiceAct ==
    /\ StreamReady
    /\ CallerIdle
    /\ ring' = Issued(Service(ring))
    /\ op' = OpRec("Service", 0, 0, "", 0, 0)
    /\ ports' = <<>>
    /\ RingFrame

ReadCallAct ==
    /\ StreamReady
    /\ CallerIdle
    /\ \E fCapture \in BOOLEAN, Length \in ReadLengthInputs :
          /\ StreamOpen(ring, fCapture)
          /\ IF fCapture
             THEN /\ ring' = Issued(ReadEnter(ring, Length))
                  /\ op' = OpRec("ReadCall", 1, Length, "", 0, 0)
             ELSE /\ ring' = Issued(ring)
                  /\ op' = OpRec("Read", 0, 0, STATUS_INVALID_DEVICE_REQUEST, 0, 0)
    /\ ports' = <<>>
    /\ RingFrame

\* the loop test; when it fails Read returns count in *BytesRead
ReadTestAct ==
    /\ ring.rd.pc = "test"
    /\ ring' = ReadTest(ring)
    /\ op' = IF ReadTest(ring).rd.pc = "copy"
             THEN OpRec("ReadTest", ring.rd.count, 0, "", 0, 0)
             ELSE OpRec("Read", ring.rd.count, 0, STATUS_SUCCESS, 0, 0)
    /\ ports' = <<>>
    /\ RingFrame

\* a: the byte copied; b: the stamp that was due
ReadCopyAct ==
    /\ ring.rd.pc = "copy"
    /\ ring' = ReadCopy(ring)
    /\ op' = OpRec("ReadCopy", ReadCopy(ring).rd.out[ring.rd.count + 1],
                   NextDue(ring), "", 0, 0)
    /\ ports' = <<>>
    /\ RingFrame

ReadBumpAct ==
    /\ ring.rd.pc = "bump"
    /\ ring' = ReadBump(ring)
    /\ op' = OpRec("ReadBump", 0, 0, "", 0, 0)
    /\ ports' = <<>>
    /\ RingFrame

\* the dispatcher calls ServiceMidiISR with avail bytes in the receive FIFO
ServiceMidiISREnterAct ==
    /\ StreamReady
    /\ m_pMidiMiniport # NULL
    /\ ring.sv.pc = "idle"
    /\ \E avail \in RingAvailInputs :
          /\ ring' = Issued(RingEnter(ring, avail))
          /\ op' = OpRec("ServiceMidiISREnter", avail, 0, "", 0, 0)
    /\ ports' = <<>>
    /\ RingFrame

\* the ReadMMA calls of one pass
RingFetchPorts(m, o, dataByte) ==
    IF o = "limit" THEN m
    ELSE IF o = "empty" THEN ReadMMA(m, MMA_REG_STATUS, 0)
    ELSE ReadMMA(ReadMMA(m, MMA_REG_STATUS, MMA_STATUS_RRQ),
                 MMA_REG_MIDI_DATA, dataByte)

\* a: the stamp of the byte fetched, 0 if none; ret: what became of it
ServiceMidiISRFetchAct ==
    /\ ring.sv.pc = "fetch"
    /\ Commit(RingFetchPorts(Mach(<<>>), RingFetchOutcome(ring, m_PowerState),
                             RxByte(ring.rx + 1)))
    /\ ring' = RingFetch(ring, m_PowerState)
    /\ op' = OpRec("ServiceMidiISRFetch",
                   IF RingFetchOutcome(ring, m_PowerState) \in {"limit", "empty"}
                   THEN 0 ELSE ring.rx + 1,
                   0, RingFetchOutcome(ring, m_PowerState), 0, 0)
    /\ UNCHANGED <<audio, isr, miniports, adapter, connected, m_CardModel, m_CardOptions,
                   m_pWaveMiniport, m_pMidiMiniport, call, nops>>

\* the store reads m_InputBufferTail again or uses the value the overflow
\* test loaded, as the compiler chose
ServiceMidiISRStoreAct ==
    /\ ring.sv.pc = "store"
    /\ \E idx \in {ring.sv.tail0, ring.m_InputBufferTail} :
          /\ ring' = RingStore(ring, idx)
          /\ op' = OpRec("ServiceMidiISRStore", idx, ring.sv.stamp, "", 0, 0)
    /\ ports' = <<>>
    /\ RingFrame

ServiceMidiISRAdvanceAct ==
    /\ ring.sv.pc = "advance"
    /\ ring' = RingAdvance(ring)
    /\ op' = OpRec("ServiceMidiISRAdvance", ring.sv.nextTail, 0, "", 0, 0)
    /\ ports' = <<>>
    /\ RingFrame

\* interrupts arriving while no stream call is made and none is in progress
MidiBacklogAct ==
    /\ StreamReady
    /\ CallerIdle
    /\ ring.sv.pc = "idle"
    /\ m_pMidiMiniport # NULL
    /\ ring' = Issued(RingBacklog(ring, BacklogAvail, m_PowerState))
    /\ op' = OpRec("MidiBacklog", Len(BacklogAvail), 0, "", 0, 0)
    /\ ports' = <<>>
    /\ RingFrame

NextRing ==
    \/ StartDeviceAct
    \/ NewStreamAct
    \/ StreamDestroyAct
    \/ SetStateAct
    \/ ServiceAct
    \/ ReadCallAct
    \/ ReadTestAct
    \/ ReadCopyAct
    \/ ReadBumpAct
    \/ ServiceMidiISREnterAct
    \/ ServiceMidiISRFetchAct
    \/ ServiceMidiISRStoreAct
    \/ ServiceMidiISRAdvanceAct
    \/ MidiBacklogAct

SpecRing == Init /\ [][NextRing]_vars

(***************************************************************************)
(* The MIDI render path: the stream's Write hands up to 16 bytes to        *)
(* SynchronizedMidiWrite, through CallSynchronizedRoutine when the adapter *)
(* has an interrupt sync object.  With Length >= 1 the routine writes at   *)
(* least one byte, so the m_NumFailedTries branch is never taken.          *)
(***************************************************************************)
MidiTxLimit == 16
WriteLengthInputs == {0, 1, 2, 16, 17}

\* the i-th byte of the caller's buffer
TxByte(i) == 255 - i

\* SynchronizedMidiWrite: the loop from count on
RECURSIVE SynchronizedMidiWrite(_, _, _)
SynchronizedMidiWrite(m, Length, count) ==
    IF count < Length /\ count < MidiTxLimit
    THEN SynchronizedMidiWrite(WriteMMA(m, MMA_REG_MIDI_DATA, TxByte(count + 1)),
                               Length, count + 1)
    ELSE [m |-> m, count |-> count]

\* CMiniportMidiStreamUartAdLibGold::Write.  BytesWritten is -1 where the
\* routine returns without assigning it
MidiWrite(m, fCapture, hasBuffer, Length0) ==
    LET Length == IF hasBuffer THEN Length0 ELSE 0
    IN  IF fCapture
        THEN [m |-> m, status |-> STATUS_INVALID_DEVICE_REQUEST,
              BytesWritten |-> -1]
        ELSE IF Length = 0
        THEN [m |-> m, status |-> STATUS_SUCCESS, BytesWritten |-> 0]
        ELSE [m |-> SynchronizedMidiWrite(m, Length, 0).m,
              status |-> STATUS_SUCCESS,
              BytesWritten |-> SynchronizedMidiWrite(m, Length, 0).count]

\* a: Length as the routine uses it; b: BytesWritten; wave: 1 for a capture
\* stream; midi: 1 when the bytes went through CallSynchronizedRoutine
MidiWriteCommit(r, fCapture, Length) ==
    /\ Commit(r.m)
    /\ op' = OpRec("Write", Length, r.BytesWritten, r.status,
                   IF fCapture THEN 1 ELSE 0,
                   IF ~fCapture /\ Length > 0 /\ connected THEN 1 ELSE 0)

MidiWriteAct ==
    /\ StreamReady
    /\ CallerIdle
    /\ \E fCapture \in BOOLEAN, hasBuffer \in BOOLEAN, Length \in WriteLengthInputs :
          /\ StreamOpen(ring, fCapture)
          /\ MidiWriteCommit(MidiWrite(Mach(<<>>), fCapture, hasBuffer, Length),
                             fCapture, IF hasBuffer THEN Length ELSE 0)
    /\ ring' = Issued(ring)
    /\ UNCHANGED <<audio, isr, miniports, adapter, connected, m_CardModel, m_CardOptions,
                   m_pWaveMiniport, m_pMidiMiniport, call, nops>>

NextMidiOut ==
    \/ StartDeviceAct
    \/ NewStreamAct
    \/ StreamDestroyAct
    \/ PowerChangeStateAct
    \/ MidiWriteAct

SpecMidiOut == Init /\ [][NextMidiOut]_vars

(***************************************************************************)
(* The wave miniport's streams (unnamed/part_001).  Operators take the     *)
(* machine value m (which here also carries the MMA chip, field mma) and   *)
(* the miniport record w, and return both.                                 *)
(***************************************************************************)
\* what the MMA does with a byte written to one of its two ports
MmaPortW(c, port, val) ==
    IF port = ALG_REG_MMA0_ADDR THEN [c EXCEPT !.addr = val]
    ELSE IF port = ALG_REG_MMA0_DATA
    THEN [c EXCEPT !.regs = BufferPut(@, c.addr, val),
                   !.fifo = IF c.addr = MMA_REG_PCM_DATA THEN @ + 1 ELSE @]
    ELSE c

\* ac->WriteMMA(Register, Value) and the chip's reaction to its port writes
AcWriteMMAFrom(m, m1, Register, Value) ==
    IF Len(m1.log) = Len(m.log) THEN m1
    ELSE [m1 EXCEPT !.mma = MmaPortW(MmaPortW(m.mma, ALG_REG_MMA0_ADDR, Register),
                                     ALG_REG_MMA0_DATA, Value)]

AcWriteMMA(m, Register, Value) ==
    AcWriteMMAFrom(m, WriteMMA(m, Register, Value), Register, Value)

WaveMach(log) ==
    [hw |-> hw, regs |-> m_ControlRegs, ps |-> m_PowerState, log |-> log,
     mma |-> audio.mma]

StreamOf(w, fCapture) == IF fCapture THEN w.capture ELSE w.render

WithStream(w, fCapture, s) ==
    IF fCapture THEN [w EXCEPT !.capture = s] ELSE [w EXCEPT !.render = s]

\* CMiniportWaveCyclicAdLibGold::ValidateFormat
ValidateFormat(wfx) ==
    IF ~wfx.pcm THEN STATUS_INVALID_PARAMETER
    ELSE IF wfx.nChannels < 1 \/ wfx.nChannels > 2 THEN STATUS_INVALID_PARAMETER
    ELSE IF wfx.wBitsPerSample # 8 /\ wfx.wBitsPerSample # 16
    THEN STATUS_INVALID_PARAMETER
    ELSE IF \A i \in 1..Len(SupportedSampleRates) :
                wfx.nSamplesPerSec # SupportedSampleRates[i]
    THEN STATUS_INVALID_PARAMETER
    ELSE STATUS_SUCCESS

\* CMiniportWaveCyclicAdLibGold::SampleRateToFreqBits
SampleRateToFreqBits(SampleRate) ==
    IF SampleRate = 44100 THEN MMA_FREQ_44100
    ELSE IF SampleRate = 22050 THEN MMA_FREQ_22050
    ELSE IF SampleRate = 11025 THEN MMA_FREQ_11025
    ELSE IF SampleRate = 7350 THEN MMA_FREQ_7350
    ELSE MMA_FREQ_22050

\* CMiniportWaveCyclicStreamAdLibGold::Init
StreamInit(wfx) ==
    [live |-> TRUE, m_16Bit |-> wfx.wBitsPerSample = 16,
     m_Stereo |-> wfx.nChannels = 2, m_State |-> KSSTATE_STOP,
     m_SoftwarePosition |-> 0, m_LfsrState |-> LFSR_SEED,
     rate |-> wfx.nSamplesPerSec, ran |-> FALSE, irq |-> FALSE]

\* variant: the direction's allocation flag is not tested
WaveNewStreamStatus_NoLimit(w, Capture, wfx, allocOk) ==
    IF ValidateFormat(wfx) # STATUS_SUCCESS THEN ValidateFormat(wfx)
    ELSE IF (w.m_CaptureAllocated \/ w.m_RenderAllocated)
            /\ w.m_SamplingFrequency # wfx.nSamplesPerSec
    THEN STATUS_INVALID_PARAMETER
    ELSE IF ~allocOk THEN STATUS_INSUFFICIENT_RESOURCES
    ELSE STATUS_SUCCESS

\* variant: the full-duplex rate test is left out
WaveNewStreamStatus_AnyRate(w, Capture, wfx, allocOk) ==
    IF Capture /\ w.m_CaptureAllocated THEN STATUS_INVALID_DEVICE_REQUEST
    ELSE IF ~Capture /\ w.m_RenderAllocated THEN STATUS_INVALID_DEVICE_REQUEST
    ELSE IF ValidateFormat(wfx) # STATUS_SUCCESS THEN ValidateFormat(wfx)
    ELSE IF ~allocOk THEN STATUS_INSUFFICIENT_RESOURCES
    ELSE STATUS_SUCCESS

\* CMiniportWaveCyclicAdLibGold::NewStream, the status it returns; allocOk:
\* the stream object could be allocated
WaveNewStreamStatus(w, Capture, wfx, allocOk) ==
    IF Capture /\ w.m_CaptureAllocated THEN STATUS_INVALID_DEVICE_REQUEST
    ELSE IF ~Capture /\ w.m_RenderAllocated THEN STATUS_INVALID_DEVICE_REQUEST
    ELSE IF ValidateFormat(wfx) # STATUS_SUCCESS THEN ValidateFormat(wfx)
    ELSE IF (w.m_CaptureAllocated \/ w.m_RenderAllocated)
            /\ w.m_SamplingFrequency # wfx.nSamplesPerSec
    THEN STATUS_INVALID_PARAMETER
    ELSE IF ~allocOk THEN STATUS_INSUFFICIENT_RESOURCES
    ELSE STATUS_SUCCESS

\* CMiniportWaveCyclicAdLibGold::NewStream, the miniport it leaves
WaveNewStream(w, Capture, wfx, allocOk) ==
    IF WaveNewStreamStatus(w, Capture, wfx, allocOk) # STATUS_SUCCESS THEN w
    ELSE LET w1 == WithStream(w, Capture, StreamInit(wfx))
         IN  IF Capture
             THEN [w1 EXCEPT !.m_CaptureAllocated = TRUE,
                             !.m_SamplingFrequency = wfx.nSamplesPerSec,
                             !.nCapture = @ + 1]
             ELSE [w1 EXCEPT !.m_RenderAllocated = TRUE,
                             !.m_SamplingFrequency = wfx.nSamplesPerSec,
                             !.nRender = @ + 1]

\* CMiniportWaveCyclicStreamAdLibGold::SetFormat, the status it returns
WaveSetFormatStatus(w, wfx) ==
    IF ValidateFormat(wfx) # STATUS_SUCCESS THEN ValidateFormat(wfx)
    ELSE IF w.m_CaptureAllocated /\ w.m_RenderAllocated
            /\ w.m_SamplingFrequency # wfx.nSamplesPerSec
    THEN STATUS_INVALID_PARAMETER
    ELSE STATUS_SUCCESS

\* variant: any valid format is taken
WaveSetFormat_AnyRate(w, fCapture, wfx) ==
    IF ValidateFormat(wfx) # STATUS_SUCCESS THEN w
    ELSE [WithStream(w, fCapture,
                     [StreamOf(w, fCapture) EXCEPT
                         !.m_16Bit = wfx.wBitsPerSample = 16,
                         !.m_Stereo = wfx.nChannels = 2,
                         !.rate = wfx.nSamplesPerSec])
            EXCEPT !.m_SamplingFrequency = wfx.nSamplesPerSec]

\* CMiniportWaveCyclicStreamAdLibGold::SetFormat, the miniport it leaves
WaveSetFormat(w, fCapture, wfx) ==
    IF WaveSetFormatStatus(w, wfx) # STATUS_SUCCESS THEN w
    ELSE [WithStream(w, fCapture,
                     [StreamOf(w, fCapture) EXCEPT
                         !.m_16Bit = wfx.wBitsPerSample = 16,
                         !.m_Stereo = wfx.nChannels = 2,
                         !.rate = wfx.nSamplesPerSec])
            EXCEPT !.m_SamplingFrequency = wfx.nSamplesPerSec]

\* LfsrNext (minwave.h): one step of the 16-bit LFSR
LfsrNext(State) ==
    (State \div 2)
    + 32768 * (((State % 2) + ((State \div 4) % 2) + ((State \div 8) % 2)
                + ((State \div 32) % 2)) % 2)

\* DitherSample (minwave.h): the two bytes FillFifo writes for a sample and
\* the LFSR state left; the SHORT result is taken as its 16-bit pattern
DitherBytes(dithered, lfsr) ==
    LET u == ((Clamp(dithered, -32768, 32767) + 65536) % 65536)
        t == u - (u % 16)
    IN  [lo |-> t % 256, hi |-> t \div 256, lfsr |-> lfsr]

DitherSample(Sample16, Lfsr) ==
    DitherBytes(Sample16 + ((Lfsr % 16) - 8) + ((LfsrNext(Lfsr) % 16) - 8),
                LfsrNext(LfsrNext(Lfsr)))

\* the 16-bit sample the port driver left at byte offset pos of the cyclic buffer
CyclicSample(pos) == (((pos \div 2) * 517) % 65536) - 32768

\* FillFifo: one pass of its loop, d being the dithered sample
FillFifoPass(m, s, d) ==
    [m |-> AcWriteMMA(AcWriteMMA(m, MMA_REG_PCM_DATA, d.lo), MMA_REG_PCM_DATA, d.hi),
     s |-> [s EXCEPT !.m_LfsrState = d.lfsr,
                     !.m_SoftwarePosition =
                         IF @ + 2 >= DmaBufferSize THEN 0 ELSE @ + 2,
                     !.irq = FALSE]]

\* CMiniportWaveCyclicStreamAdLibGold::FillFifo; the cyclic buffer exists
\* whenever the miniport's Init succeeded
RECURSIVE FillFifoLoop(_, _)
FillFifoLoop(r, bytesWritten) ==
    CASE bytesWritten >= MMA_FIFO_SIZE -> r
      [] \* the sample read lies inside the cyclic buffer
         bytesWritten < MMA_FIFO_SIZE
         /\ r.s.m_SoftwarePosition + 2 <= DmaBufferSize ->
            FillFifoLoop(
                FillFifoPass(r.m, r.s,
                             DitherSample(CyclicSample(r.s.m_SoftwarePosition),
                                          r.s.m_LfsrState)),
                bytesWritten + 2)

FillFifo(m, s) == FillFifoLoop([m |-> m, s |-> s], 0)

\* register 0x0C as ProgramMmaStart programs it
StartFormat(s) ==
    MMA_FIFO_THR_DEFAULT * (2 ^ MMA_FMT_FIFO_SHIFT)
    + (IF s.m_16Bit
       THEN MMA_DATA_FMT_12B_2 * (2 ^ MMA_FMT_DATA_SHIFT)
       ELSE MMA_DATA_FMT_8BIT * (2 ^ MMA_FMT_DATA_SHIFT) + MMA_FMT_ENB + MMA_FMT_MSK)

\* register 0x09 as ProgramMmaStart programs it
StartPlayback(w, fCapture) ==
    MMA_PB_PCM + MMA_PB_GO + MMA_PB_LEFT + MMA_PB_RIGHT
    + SampleRateToFreqBits(w.m_SamplingFrequency) * (2 ^ MMA_PB_FREQ_SHIFT)
    + (IF ~fCapture THEN MMA_PB_PLAYBACK ELSE 0)

\* the reset pulse both ProgramMmaStart and ProgramMmaStop begin with
MmaEngineReset(m) ==
    AcWriteMMA(Stall(AcWriteMMA(m, MMA_REG_PLAYBACK, MMA_PB_RST), 1),
               MMA_REG_PLAYBACK, 0)

\* ProgramMmaStart from the pre-fill on: f is the machine and stream after it
ProgramMmaStartGo(f, w, fCapture) ==
    [m |-> AcWriteMMA(f.m, MMA_REG_PLAYBACK, StartPlayback(w, fCapture)),
     w |-> [WithStream(w, fCapture, f.s) EXCEPT
              !.dma = IF ~f.s.m_16Bit
                      THEN [running |-> TRUE, toDevice |-> ~fCapture]
                      ELSE @]]

\* CMiniportWaveCyclicStreamAdLibGold::ProgramMmaStart
ProgramMmaStartFrom(m2, s, w, fCapture) ==
    ProgramMmaStartGo(
        IF s.m_16Bit /\ ~fCapture
        THEN FillFifo(m2, [s EXCEPT !.m_SoftwarePosition = 0])
        ELSE [m |-> m2,
              s |-> IF s.m_16Bit THEN [s EXCEPT !.m_SoftwarePosition = 0] ELSE s],
        w, fCapture)

ProgramMmaStart(m, w, fCapture) ==
    ProgramMmaStartFrom(
        AcWriteMMA(MmaEngineReset(m), MMA_REG_FORMAT, StartFormat(StreamOf(w, fCapture))),
        StreamOf(w, fCapture), w, fCapture)

\* CMiniportWaveCyclicStreamAdLibGold::ProgramMmaStop
ProgramMmaStop(m, w, fCapture) ==
    [m |-> AcWriteMMA(MmaEngineReset(m), MMA_REG_FORMAT, MMA_FMT_MSK),
     w |-> [WithStream(w, fCapture,
                       [StreamOf(w, fCapture) EXCEPT !.m_SoftwarePosition = 0])
              EXCEPT !.dma = IF ~StreamOf(w, fCapture).m_16Bit
                             THEN DmaStopped ELSE @]]

\* SetState, case KSSTATE_PAUSE coming from KSSTATE_RUN
PauseFromRun(m, w, fCapture) ==
    [m |-> AcWriteMMA(
              AcWriteMMA(m, MMA_REG_PLAYBACK, 0), MMA_REG_FORMAT,
              (IF StreamOf(w, fCapture).m_16Bit
               THEN MMA_DATA_FMT_12B_2 ELSE MMA_DATA_FMT_8BIT)
                  * (2 ^ MMA_FMT_DATA_SHIFT)
              + MMA_FIFO_THR_DEFAULT * (2 ^ MMA_FMT_FIFO_SHIFT)
              + MMA_FMT_MSK
              + (IF ~StreamOf(w, fCapture).m_16Bit THEN MMA_FMT_ENB ELSE 0)),
     w |-> [w EXCEPT !.dma = IF ~StreamOf(w, fCapture).m_16Bit
                             THEN DmaStopped ELSE @]]

\* SetState: the switch on the new state
SetStateSwitch(m, w, fCapture, NewState) ==
    IF NewState = KSSTATE_PAUSE
    THEN IF StreamOf(w, fCapture).m_State = KSSTATE_RUN
         THEN PauseFromRun(m, w, fCapture)
         ELSE [m |-> m, w |-> w]
    ELSE IF NewState = KSSTATE_RUN THEN ProgramMmaStart(m, w, fCapture)
    ELSE IF NewState = KSSTATE_STOP THEN ProgramMmaStop(m, w, fCapture)
    ELSE [m |-> m, w |-> w]

\* SetState: m_State = NewState after the switch returned r
SetStateDone(r, fCapture, NewState) ==
    [m |-> r.m,
     w |-> WithStream(r.w, fCapture,
                      [StreamOf(r.w, fCapture) EXCEPT
                          !.m_State = NewState,
                          !.ran = @ \/ NewState = KSSTATE_RUN])]

\* CMiniportWaveCyclicStreamAdLibGold::SetState
WaveSetStateTo(m, w, fCapture, NewState) ==
    IF StreamOf(w, fCapture).m_State = NewState THEN [m |-> m, w |-> w]
    ELSE SetStateDone(SetStateSwitch(m, w, fCapture, NewState), fCapture, NewState)

WaveSetState(m, w, fCapture, NewState) ==
    WaveSetStateTo(m, w, fCapture,
                   IF NewState = KSSTATE_ACQUIRE THEN KSSTATE_PAUSE ELSE NewState)

\* ~CMiniportWaveCyclicStreamAdLibGold: the flag of the stream's direction
WaveStreamRelease(r, fCapture) ==
    [m |-> r.m,
     w |-> IF fCapture
           THEN [r.w EXCEPT !.m_CaptureAllocated = FALSE, !.capture = NoStream,
                            !.nCapture = @ - 1, !.freed = @ \cup {TRUE}]
           ELSE [r.w EXCEPT !.m_RenderAllocated = FALSE, !.render = NoStream,
                            !.nRender = @ - 1, !.freed = @ \cup {FALSE}]]

\* variant: the destructor frees both directions
WaveStreamDestroy_FreesBoth(m, w, fCapture) ==
    [m |-> m,
     w |-> [w EXCEPT !.m_CaptureAllocated = FALSE, !.m_RenderAllocated = FALSE,
                     !.capture = NoStream, !.render = NoStream,
                     !.nCapture = IF fCapture THEN @ - 1 ELSE @,
                     !.nRender = IF fCapture THEN @ ELSE @ - 1,
                     !.freed = @ \cup {fCapture}]]

\* ~CMiniportWaveCyclicStreamAdLibGold
WaveStreamDestroy(m, w, fCapture) ==
    WaveStreamRelease(
        IF StreamOf(w, fCapture).m_State # KSSTATE_STOP
        THEN ProgramMmaStop(m, w, fCapture)
        ELSE [m |-> m, w |-> w],
        fCapture)

(***************************************************************************)
(* SpecWave: the device is started (the adapter's Init, then the wave      *)
(* miniport's Init), after which the port driver creates, formats, runs    *)
(* and destroys the two wave streams one call at a time while the power    *)
(* manager may change the adapter's power state.                           *)
(***************************************************************************)
WaveStateInputs == {KSSTATE_STOP, KSSTATE_ACQUIRE, KSSTATE_PAUSE, KSSTATE_RUN}
WavePowerInputs == {PowerDeviceD0, PowerDeviceD3}

WaveStartDeviceCommit(r1, r2) ==
    /\ Commit(IF r1.status = STATUS_SUCCESS THEN r2.m ELSE r1.m)
    /\ adapter' = IF r1.status = STATUS_SUCCESS THEN "ready" ELSE "failed"
    /\ connected' = r1.connected
    /\ m_CardModel' = IF r1.probed
                      THEN BitAnd(r1.idByte, CTRL_ID_MODEL_MASK)
                      ELSE m_CardModel
    /\ m_CardOptions' = IF r1.probed THEN r1.idByte ELSE m_CardOptions
    /\ m_pMidiMiniport' = NULL
    /\ m_pWaveMiniport' = IF r1.status = STATUS_SUCCESS THEN r2.slot ELSE NULL
    /\ miniports' = IF r1.status = STATUS_SUCCESS
                    THEN [miniports EXCEPT !.wave = AfterInit(r2)]
                    ELSE miniports
    /\ op' = OpRecStore("StartDevice", 0, IF r1.probed THEN r1.idByte ELSE -1,
                        r1.status, 0, 0, 1)

WaveStartDeviceWith(r1) ==
    WaveStartDeviceCommit(r1, WaveMiniportInit(r1.m, NULL, TRUE, TRUE, "ok", 7, 1, 0))

WaveStartDeviceAct ==
    /\ adapter = "new"
    /\ WaveStartDeviceWith(AdapterInit(Mach(<<>>), 0, TRUE, StoreCases[1]))
    /\ audio' = WaveInit
    /\ UNCHANGED <<ring, isr, call, nops>>

\* a stream call can be issued
WaveReady == miniports.wave.life = "initialized" /\ audio.n < MaxStreamOps

WaveFrame ==
    UNCHANGED <<ring, isr, miniports, adapter, connected, m_CardModel,
                m_CardOptions, m_pWaveMiniport, m_pMidiMiniport, call, nops>>

\* a: 1 for the capture direction, 0 for render; b: the second argument
WaveCommit(r, name, a, b, ret) ==
    /\ Commit(r.m)
    /\ audio' = [r.w EXCEPT !.mma = r.m.mma, !.n = @ + 1]
    /\ op' = OpRec(name, IF a THEN 1 ELSE 0, b, ret, 0, 0)

WaveNewStreamAct ==
    /\ WaveReady
    /\ \E Capture \in BOOLEAN, i \in WaveFormatInputs, allocOk \in BOOLEAN :
          WaveCommit([m |-> WaveMach(<<>>),
                      w |-> WaveNewStream(audio, Capture, WaveFormats[i], allocOk)],
                     "WaveNewStream", Capture, i,
                     WaveNewStreamStatus(audio, Capture, WaveFormats[i], allocOk))
    /\ WaveFrame

WaveSetFormatAct ==
    /\ WaveReady
    /\ \E fCapture \in BOOLEAN, i \in WaveFormatInputs :
          /\ StreamOf(audio, fCapture).live
          /\ WaveCommit([m |-> WaveMach(<<>>),
                         w |-> WaveSetFormat(audio, fCapture, WaveFormats[i])],
                        "WaveSetFormat", fCapture, i,
                        WaveSetFormatStatus(audio, WaveFormats[i]))
    /\ WaveFrame

WaveSetStateAct ==
    /\ WaveReady
    /\ \E fCapture \in BOOLEAN, NewState \in WaveStateInputs :
          /\ StreamOf(audio, fCapture).live
          /\ WaveCommit(WaveSetState(WaveMach(<<>>), audio, fCapture, NewState),
                        "WaveSetState", fCapture, NewState, STATUS_SUCCESS)
    /\ WaveFrame

WaveStreamDestroyAct ==
    /\ WaveReady
    /\ \E fCapture \in BOOLEAN :
          /\ StreamOf(audio, fCapture).live
          /\ WaveCommit(WaveStreamDestroy(WaveMach(<<>>), audio, fCapture),
                        "WaveStreamDestroy", fCapture, 0, "")
    /\ WaveFrame

\* CAdapterCommon::PowerChangeState between two stream calls
WavePowerAct ==
    /\ WaveReady
    /\ \E NewState \in WavePowerInputs :
          /\ Commit(PowerChangeState(Mach(<<>>), NewState, 0))
          /\ op' = OpRec("PowerChangeState", NewState, m_PowerState, "", 0, 0)
    /\ audio' = [audio EXCEPT !.n = @ + 1,
                          !.slept = @ \/ m_PowerState' > PowerDeviceD1]
    /\ WaveFrame

NextWave ==
    \/ WaveStartDeviceAct
    \/ WaveNewStreamAct
    \/ WaveSetFormatAct
    \/ WaveSetStateAct
    \/ WaveStreamDestroyAct
    \/ WavePowerAct

SpecWave == Init /\ [][NextWave]_vars

(***************************************************************************)
(* SpecFill: SpecWave with the sampling interrupt.  The dispatcher calls   *)
(* ServiceWaveISR, which notifies the port; the port then runs its service *)
(* routine at DISPATCH_LEVEL, which asks each stream for its position.     *)
(***************************************************************************)
\* status bytes with the sampling source pending, alone and with the FM timer
WaveStatusInputs == {13, 12}
WaveMmaInputs == {MMA_STATUS_PRQ}
\* what the DMA controller's counter reads while an 8-bit stream is asked
DmaCounterInputs == {0, 512}

\* CMiniportWaveCyclicAdLibGold::ServiceWaveISR: m_Port and m_ServiceGroup
\* are set whenever Init succeeded
ServiceWaveISR(w) == [w EXCEPT !.notified = TRUE]

\* the stream a sampling interrupt asks for more data: 16-bit render in RUN
PioRenderRuns(s) == s.live /\ s.m_16Bit /\ s.m_State = KSSTATE_RUN

\* CMiniportWaveCyclicStreamAdLibGold::GetPosition
GetPosition(s, counter) ==
    IF s.m_16Bit THEN s.m_SoftwarePosition
    ELSE IF counter # 0 THEN DmaBufferSize - counter ELSE 0

WaveIsrAct ==
    /\ WaveReady
    /\ connected
    /\ \E status \in WaveStatusInputs, mma \in WaveMmaInputs :
          LET r == InterruptServiceRoutine(Mach(<<>>), m_pWaveMiniport,
                                           m_pMidiMiniport, status, mma, 0)
              w == IF r.wave > 0 THEN ServiceWaveISR(audio) ELSE audio
          IN  /\ Commit(r.m)
              /\ audio' = [w EXCEPT !.n = @ + 1,
                                    !.render.irq = @ \/ (r.wave > 0
                                                         /\ PioRenderRuns(w.render))]
              /\ op' = OpRec("Isr", status, r.mma, r.ret, r.wave, r.midi)
    /\ WaveFrame

\* the port's service routine after Notify
WavePortServiceAct ==
    /\ miniports.wave.life = "initialized"
    /\ audio.notified
    /\ \E fCapture \in BOOLEAN, counter \in DmaCounterInputs :
          op' = OpRec("GetPosition", IF fCapture THEN 1 ELSE 0,
                      IF StreamOf(audio, fCapture).live
                      THEN GetPosition(StreamOf(audio, fCapture), counter)
                      ELSE -1,
                      STATUS_SUCCESS, 0, 0)
    /\ audio' = [audio EXCEPT !.notified = FALSE]
    /\ ports' = <<>>
    /\ UNCHANGED <<hw, m_ControlRegs, m_PowerState>>
    /\ WaveFrame

NextFill ==
    \/ WaveStartDeviceAct
    \/ WaveNewStreamAct
    \/ WaveSetFormatAct
    \/ WaveSetStateAct
    \/ WaveStreamDestroyAct
    \/ WaveIsrAct
    \/ WavePortServiceAct

SpecFill == Init /\ [][NextFill]_vars /\ WF_vars(WavePortServiceAct)

(***************************************************************************)
(* SpecMma: one WriteMMA call of the wave stream, statement by statement,  *)
(* against the interrupt.  The wave stream calls WriteMMA from SetState    *)
(* and FillFifo without CallSynchronizedRoutine, so the dispatcher may run *)
(* between any two port accesses of the call; the dispatcher itself runs   *)
(* at DIRQL and is taken whole.  audio.mma is the chip: addr its address   *)
(* latch, regs the last byte each register received.                       *)
(***************************************************************************)
\* WriteMMA calls the wave stream makes: the mask written by ProgramMmaStop,
\* a start value of register 0x09, one FIFO byte
MmaWriteInputs ==
    { <<MMA_REG_FORMAT, MMA_FMT_MSK>>,
      <<MMA_REG_PLAYBACK, MMA_PB_PCM + MMA_PB_GO>>,
      <<MMA_REG_PCM_DATA, 85>> }

\* the chip after the port writes of a log
RECURSIVE MmaReplay(_, _)
MmaReplay(c, log) ==
    CASE log = <<>> -> c
      [] log # <<>> /\ Head(log).rw = "W" /\ c.addr \in 0 .. 255 ->
            MmaReplay(MmaPortW(c, Head(log).port, Head(log).val), Tail(log))
      [] OTHER -> MmaReplay(c, Tail(log))

\* what the dispatcher reads during a WriteMMA call: no source pending, the
\* sampling source alone, the FM timer alone; the MMA status without and
\* with RRQ; a receive FIFO holding nothing, one byte, more than one drain
MmaIsrStatusInputs == {15, 13, 14}
MmaIsrMmaInputs == {0, MMA_STATUS_RRQ}
MmaIsrRrqInputs == {0, 1, MidiDrainLimit + 1}

\* StartDevice with the MIDI and the wave miniport both initialised
MmaStartDeviceAct ==
    /\ adapter = "new"
    /\ LET r1 == AdapterInit(Mach(<<>>), 0, TRUE, StoreCases[1])
           r2 == MidiMiniportInit(r1.m, NULL, TRUE, TRUE, TRUE, 0)
           r3 == WaveMiniportInit(r2.m, NULL, TRUE, TRUE, "ok", 7, 1, 0)
       IN  /\ Commit(r3.m)
           /\ adapter' = "ready"
           /\ connected' = r1.connected
           /\ m_CardModel' = BitAnd(r1.idByte, CTRL_ID_MODEL_MASK)
           /\ m_CardOptions' = r1.idByte
           /\ m_pMidiMiniport' = r2.slot
           /\ m_pWaveMiniport' = r3.slot
           /\ miniports' = [wave |-> AfterInit(r3), midi |-> AfterInit(r2)]
           /\ op' = OpRecStore("StartDevice", 0, r1.idByte, r1.status, 0, 0, 1)
    /\ audio' = WaveInit
    /\ UNCHANGED <<ring, isr, call, nops>>

\* the wave stream enters WriteMMA(Register, Value)
WriteMMACallAct ==
    /\ WaveReady
    /\ call.pc = "idle"
    /\ \E w \in MmaWriteInputs :
          /\ call' = [pc |-> "gate", todo |-> <<w>>, busy |-> 0]
          /\ op' = OpRec("WriteMMA", w[1], w[2], "", 0, 0)
    /\ audio' = [audio EXCEPT !.n = @ + 1]
    /\ ports' = <<>>
    /\ UNCHANGED <<ring, isr, miniports, adapter, connected, m_PowerState,
                   m_ControlRegs, m_CardModel, m_CardOptions, m_pWaveMiniport,
                   m_pMidiMiniport, hw, nops>>

\* one statement of WriteMMA, selected by the position pc
WriteMMAStmt(pc, m, Register, Value) ==
    CASE pc = "addr" -> Stall(PortW(m, ALG_REG_MMA0_ADDR, Register), 1)
      [] pc = "data" -> Stall(PortW(m, ALG_REG_MMA0_DATA, Value), 1)
      [] OTHER       -> m

\* the position after the statement at pc
WriteMMAGoto(pc, ps) ==
    CASE pc = "gate" -> IF ps > PowerDeviceD1 THEN "return" ELSE "addr"
      [] pc = "addr" -> "data"
      [] OTHER       -> "return"

\* op.a: the register the call selected, op.b: the value, op.ret: the
\* statement executed, op.wave: the latch when the statement began
WriteMMAStep ==
    /\ miniports.wave.life = "initialized"
    /\ call.pc \in {"gate", "addr", "data"}
    /\ LET Register == Head(call.todo)[1]
           Value    == Head(call.todo)[2]
           goto     == WriteMMAGoto(call.pc, m_PowerState)
           m1       == WriteMMAStmt(call.pc, Mach(<<>>), Register, Value)
       IN  /\ hw' = m1.hw
           /\ ports' = ports \o m1.log
           /\ audio' = [audio EXCEPT !.mma = MmaReplay(@, m1.log)]
           /\ op' = OpRec("WriteMMAStep", Register, Value, call.pc,
                          audio.mma.addr, 0)
           /\ call' = IF goto # "return" THEN [call EXCEPT !.pc = goto] ELSE Idle
    /\ UNCHANGED <<ring, isr, miniports, adapter, connected, m_PowerState,
                   m_ControlRegs, m_CardModel, m_CardOptions, m_pWaveMiniport,
                   m_pMidiMiniport, nops>>

\* the interrupt, taken whole at DIRQL wherever the caller stands
MmaIsrAct ==
    /\ WaveReady
    /\ connected
    /\ \E status \in MmaIsrStatusInputs :
       \E mma \in IF ReadsMma(status) THEN MmaIsrMmaInputs ELSE {0} :
       \E avail \in IF ReadsMma(status) /\ BitAnd(mma, MMA_STATUS_RRQ) # 0
                    THEN MmaIsrRrqInputs ELSE {0} :
          LET r == InterruptServiceRoutine(Mach(<<>>), m_pWaveMiniport,
                                           m_pMidiMiniport, status, mma, avail)
          IN  /\ hw' = r.m.hw
              /\ audio' = [audio EXCEPT !.mma = MmaReplay(@, r.m.log),
                                        !.n = @ + 1,
                                        !.notified = @ \/ r.wave > 0]
              /\ op' = OpRec("Isr", status, r.mma, r.ret, r.wave, r.midi)
    /\ UNCHANGED <<ring, isr, miniports, adapter, connected, m_PowerState,
                   m_ControlRegs, m_CardModel, m_CardOptions, m_pWaveMiniport,
                   m_pMidiMiniport, call, ports, nops>>

NextMma ==
    \/ MmaStartDeviceAct
    \/ WriteMMACallAct
    \/ WriteMMAStep
    \/ MmaIsrAct

SpecMma == Init /\ [][NextMma]_vars

(***************************************************************************)
(* Observers of a port log.                                                *)
(***************************************************************************)
\* the Control Chip data writes <<index, value>> a log delivers, replayed on
\* the chip state h the log started from
RECURSIVE ChipWrites(_, _)
ChipWrites(log, h) ==
    IF log = <<>> THEN <<>>
    ELSE LET e   == Head(log)
             hit == e.rw = "W" /\ e.port = ALG_REG_FM1_DATA /\ h.bank = "Control"
             h1  == IF e.rw = "W" THEN HwWrite(h, e.port, e.val) ELSE h
         IN  (IF hit THEN << <<h.ctrlIdx, e.val>> >> ELSE <<>>)
                 \o ChipWrites(Tail(log), h1)

\* number of reads of the MMA status register in a log: reads of the MMA
\* address port, and reads of the MMA data port while register 0 is selected
RECURSIVE MmaStatusReads(_, _)
MmaStatusReads(log, latch) ==
    IF log = <<>> THEN 0
    ELSE LET e == Head(log)
             l == IF e.rw = "W" /\ e.port = ALG_REG_MMA0_ADDR THEN e.val ELSE latch
             c == IF e.rw = "R" /\ e.port = ALG_REG_MMA0_ADDR THEN e.n
                  ELSE IF e.rw = "R" /\ e.port = ALG_REG_MMA0_DATA
                          /\ latch = MMA_REG_STATUS THEN e.n
                  ELSE 0
         IN  c + MmaStatusReads(Tail(log), l)

\* the bytes a log read from the shared data port (base+3), in order
DataReadValues(log) ==
    LET s == SelectSeq(log, LAMBDA e : e.rw = "R" /\ e.port = ALG_REG_FM1_DATA)
    IN  [i \in 1..Len(s) |-> s[i].val]

\* a log holds a WaitForReady that used up its whole budget with the chip
\* still busy
PollExhausted(log) ==
    \E i \in 1..Len(log) :
        /\ log[i].rw = "R"
        /\ log[i].port = ALG_REG_FM1_ADDR
        /\ log[i].n = WaitTimeout
        /\ BitAnd(log[i].val, ALG_STATUS_BUSY_MASK) # 0

\* a log selects the Control Chip bank
SelectsControlBank(log) ==
    \E i \in 1..Len(log) :
        log[i].rw = "W" /\ log[i].port = ALG_REG_FM1_ADDR /\ log[i].val = ALG_BANK_CONTROL

\* the chip as the last operation found it
HwBefore == [hw EXCEPT !.bank = op.bank0]

\* the ports a log touches
PortsOf(log) == {log[i].port : i \in {j \in 1..Len(log) : log[j].rw # "S"}}

SamplingAsserted(status) == BitAnd(status, ALG_STATUS_SMP_IRQ) = 0

InRange(Register) == Register \in 0..(CTRL_REG_MAX - 1)

(***************************************************************************)
(* C1: for every register index i in 0x00..0x18 and every value v, in      *)
(* every power state, ControlRegWrite(i, v) followed by ControlRegRead(i)  *)
(* returns v.                                                              *)
(***************************************************************************)
C1_WriteThenRead ==
    [][(/\ op.name = "ControlRegWrite"
        /\ InRange(op.a)
        /\ op'.name = "ControlRegRead"
        /\ op'.a = op.a) => op'.b = op.b]_vars

\* a read that returned the value written while the device was powered off
C1_Witness ==
    /\ op.name = "ControlRegRead"
    /\ op.a = 6
    /\ op.b = 249
    /\ m_PowerState = PowerDeviceD3
    /\ hw.regs[6] # 249

(***************************************************************************)
(* C2 (as claimed): after any ControlRegWrite call returns, the shared     *)
(* port pair selects SecondaryBank (OPL3 array 1), for every index, value, *)
(* power state and bank selected when the call began.                      *)
(***************************************************************************)
C2_BankAfterWrite_Original ==
    op.name = "ControlRegWrite" => hw.bank = "OPL3"

(***************************************************************************)
(* C2 (amended): a ControlRegWrite call made in Full or Standby1 returns   *)
(* with the port pair in SecondaryBank whatever bank was selected when it  *)
(* began; a call made in Standby2 or Off leaves the bank selection as it   *)
(* was when the call began.                                                *)
(***************************************************************************)
C2_BankAfterWrite ==
    [][op'.name = "ControlRegWrite" =>
          IF m_PowerState <= PowerDeviceD1
          THEN hw'.bank = "OPL3"
          ELSE hw'.bank = hw.bank]_vars

\* a write in an operative state that found the mixer bank selected
C2_Witness ==
    /\ op.name = "ControlRegWrite"
    /\ op.bank0 = "Control"
    /\ m_PowerState <= PowerDeviceD1
    /\ hw.bank = "OPL3"
    /\ ports # <<>>

(***************************************************************************)
(* C3: the interrupt dispatcher never executes between the first and the   *)
(* last port access of an in-progress bank-arbitrated ControlRegWrite      *)
(* issued by a consumer (here the topology volume handler).                *)
(***************************************************************************)
C3_IsrNeverInsideWrite ==
    ~(op.name = "Isr" /\ call.pc \in MidWrite)

(***************************************************************************)
(* C4: PowerChangeState to Full from any other state sets the state to     *)
(* Full and issues exactly twelve hardware register writes, one per index  *)
(* 0x04..0x0F in ascending order, each writing the Shadow Cache value of   *)
(* that index; nothing else is written and the cache is unchanged.         *)
(***************************************************************************)
C4_ResumeReplay ==
    [][(/\ op'.name = "PowerChangeState"
        /\ op'.a = PowerDeviceD0
        /\ m_PowerState # PowerDeviceD0)
       => /\ m_PowerState' = PowerDeviceD0
          /\ ChipWrites(ports', hw)
                = [i \in 1..12 |-> <<i + 3, m_ControlRegs[i + 3]>>]
          /\ \A i \in 4..15 : hw'.regs[i] = m_ControlRegs[i]
          /\ \A i \in 1..(CTRL_REG_MAX - 1) :
                i \notin 4..15 => hw'.regs[i] = hw.regs[i]
          /\ hw'.fm1Last = hw.fm1Last
          /\ m_ControlRegs' = m_ControlRegs]_vars

\* a resume from Off that carried a value cached while powered down to the chip
C4_Witness ==
    /\ op.name = "PowerChangeState"
    /\ op.a = PowerDeviceD0
    /\ op.b = PowerDeviceD3
    /\ m_PowerState = PowerDeviceD0
    /\ m_ControlRegs[6] = 249
    /\ hw.regs[6] = 249
    /\ Len(ChipWrites(ports, [hw EXCEPT !.bank = op.bank0])) = 12

(***************************************************************************)
(* C5: a PowerChangeState whose target is Standby1, Standby2 or Off, or    *)
(* equal to the current state, performs no port access and changes nothing *)
(* except the stored power state.                                          *)
(***************************************************************************)
C5_PowerDownTouchesNothing ==
    [][(/\ op'.name = "PowerChangeState"
        /\ \/ op'.a \in {PowerDeviceD1, PowerDeviceD2, PowerDeviceD3}
           \/ op'.a = m_PowerState)
       => /\ ports' = <<>>
          /\ m_PowerState' = op'.a
          /\ UNCHANGED <<hw, m_ControlRegs, m_CardModel, m_CardOptions,
                         m_pWaveMiniport, m_pMidiMiniport, adapter,
                         connected>>]_vars

\* a transition from Full to Standby1, the one target that stays operative
C5_Witness ==
    /\ op.name = "PowerChangeState"
    /\ op.a = PowerDeviceD1
    /\ op.b = PowerDeviceD0
    /\ m_PowerState = PowerDeviceD1
    /\ ports = <<>>

(***************************************************************************)
(* C6: in Standby2 or Off, ControlRegWrite(i, v) with i in 0x00..0x18      *)
(* performs no port access (bank latch and every hardware register         *)
(* unchanged) and still stores v in the Shadow Cache at i; in Full or      *)
(* Standby1 it performs the hardware write.                                *)
(***************************************************************************)
C6_PowerGate ==
    [][(op'.name = "ControlRegWrite" /\ InRange(op'.a))
       => /\ m_ControlRegs'[op'.a] = op'.b
          /\ IF m_PowerState \in {PowerDeviceD2, PowerDeviceD3}
             THEN ports' = <<>> /\ hw' = hw
             ELSE /\ ChipWrites(ports', hw) = << <<op'.a, op'.b>> >>
                  /\ op'.a # CTRL_REG_CONTROL_ID => hw'.regs[op'.a] = op'.b]_vars

\* a gated write: cached, but the chip still holds its old value
C6_Witness ==
    /\ op.name = "ControlRegWrite"
    /\ op.a = 9
    /\ op.b = 249
    /\ m_PowerState = PowerDeviceD2
    /\ ports = <<>>
    /\ m_ControlRegs[9] = 249
    /\ hw.regs[9] # 249

C9_MidiOnlyOnRrq ==
    op.name = "Isr"
    => /\ op.midi <= 1
       /\ op.midi = 1 => /\ SamplingAsserted(op.a)
                         /\ op.b >= 0
                         /\ BitAnd(op.b, MMA_STATUS_RRQ) # 0
                         /\ m_pMidiMiniport # NULL

\* a dispatch that did invoke the MIDI consumer
C9_Witness ==
    /\ op.name = "Isr"
    /\ op.midi = 1
    /\ op.b = 4
    /\ m_pMidiMiniport # NULL

(***************************************************************************)
(* C10: during one dispatch with the sampling bit asserted the             *)
(* auto-clearing MMA status register is read exactly once, counting the    *)
(* dispatcher's own read and every read made by the callbacks it invokes;  *)
(* with the sampling bit inactive it is read zero times.                   *)
(***************************************************************************)
C10_MmaStatusReadOnce ==
    op.name = "Isr"
    => MmaStatusReads(ports, -1) = IF SamplingAsserted(op.a) THEN 1 ELSE 0

(***************************************************************************)
(* C11: the cached value of the reserved register 0x12 is 0 in every state *)
(* reachable after initialization: no ControlRegWrite(0x12, v),            *)
(* ControlRegReset or RestoreFromEEPROM leaves it non-zero.                *)
(***************************************************************************)
C11_ReservedAlwaysZero ==
    adapter = "ready" => m_ControlRegs[CTRL_REG_RESERVED] = 0

(***************************************************************************)
(* C12: in Full or Standby1, RestoreFromEEPROM returns success and leaves  *)
(* in the cache, for each of the 25 indices, the byte the chip returned    *)
(* when that index was read back; the card model is the low nibble of the  *)
(* byte read back for register 0 and the card options are that whole byte. *)
(***************************************************************************)
C12_RestoreReadsBack ==
    [][(op'.name = "RestoreFromEEPROM" /\ m_PowerState <= PowerDeviceD1)
       => /\ op'.ret = STATUS_SUCCESS
          /\ Len(DataReadValues(ports')) = CTRL_REG_MAX
          /\ \A i \in 0..(CTRL_REG_MAX - 1) :
                m_ControlRegs'[i] = DataReadValues(ports')[i + 1]
          /\ m_ControlRegs'[CTRL_REG_CONTROL_ID] = hw.id
          /\ \A i \in 1..(CTRL_REG_MAX - 1) : m_ControlRegs'[i] = hw'.regs[i]
          /\ m_CardModel' = BitAnd(DataReadValues(ports')[1], CTRL_ID_MODEL_MASK)
          /\ m_CardOptions' = DataReadValues(ports')[1]]_vars

\* a restore on a card with identity byte 0xE2: the cache holds that byte at
\* index 0 and the EEPROM's content at the mixer registers
C12_Witness ==
    /\ op.name = "RestoreFromEEPROM"
    /\ op.ret = STATUS_SUCCESS
    /\ Len(DataReadValues(ports)) = CTRL_REG_MAX
    /\ hw.id = 226
    /\ m_ControlRegs[CTRL_REG_CONTROL_ID] = 226
    /\ m_CardModel = 2
    /\ m_CardOptions = 226
    /\ m_ControlRegs[6] = EepromFill
    /\ hw.regs[6] = EepromFill

(***************************************************************************)
(* C13: Init accepts the card exactly when the model code, the low nibble  *)
(* of the identity byte it read, is 0, 1 or 2, and then the cached model   *)
(* equals that code; for any other code Init returns hardware-not-present, *)
(* the interrupt routine is not connected and no register is written.      *)
(***************************************************************************)
C13_ModelGate ==
    /\ (op.name = "Init" /\ op.b >= 0)
       => IF BitAnd(op.b, CTRL_ID_MODEL_MASK) \in {0, 1, 2}
          THEN /\ m_CardModel = BitAnd(op.b, CTRL_ID_MODEL_MASK)
               /\ m_CardOptions = op.b
               /\ op.ret # STATUS_DEVICE_DOES_NOT_EXIST
          ELSE /\ op.ret = STATUS_DEVICE_DOES_NOT_EXIST
               /\ adapter = "failed"
               /\ ~connected
               /\ ChipWrites(ports, HwBefore) = <<>>
               /\ \A i \in 1..(CTRL_REG_MAX - 1) :
                     m_ControlRegs[i] = 0 /\ hw.regs[i] = PowerOnFill
    /\ (op.name = "Init" /\ op.ret = STATUS_SUCCESS)
       => op.b >= 0 /\ BitAnd(op.b, CTRL_ID_MODEL_MASK) \in {0, 1, 2}

\* identity byte 0x01 accepted as model 1, the interrupt connected and the
\* mixer written
C13_Witness ==
    /\ op.name = "Init"
    /\ op.b = 1
    /\ op.ret = STATUS_SUCCESS
    /\ adapter = "ready"
    /\ connected
    /\ m_CardModel = 1
    /\ Len(ChipWrites(ports, HwBefore)) > 0

(***************************************************************************)
(* C14: every operation that selects the Control Chip bank -- Init on each *)
(* of its exits, ControlRegWrite, SaveToEEPROM, RestoreFromEEPROM and the  *)
(* interrupt dispatcher -- has selected the OPL3 bank again when it        *)
(* returns.                                                                *)
(***************************************************************************)
C14_RestsInSecondaryBank ==
    (/\ op.name \in {"Init", "ControlRegWrite", "SaveToEEPROM",
                     "RestoreFromEEPROM", "Isr"}
     /\ SelectsControlBank(ports))
    => hw.bank = "OPL3"

C16_ReplayRestoresMixerRange ==
    (/\ op.name = "PowerChangeState"
     /\ op.a = PowerDeviceD0
     /\ op.b # PowerDeviceD0)
    => /\ m_PowerState = PowerDeviceD0
       /\ \A i \in CTRL_MIXER_FIRST..CTRL_MIXER_LAST : hw.regs[i] = m_ControlRegs[i]

\* C16 as first stated, for a register written by the call just before the
\* resume: after the resume the chip holds the cached value of that register
C16_EveryWrittenRegisterReplayed ==
    [][(/\ op.name = "ControlRegWrite"
        /\ op.a \in 1..(CTRL_REG_MAX - 1)
        /\ op'.name = "PowerChangeState"
        /\ op'.a = PowerDeviceD0
        /\ m_PowerState # PowerDeviceD0)
       => hw'.regs[op.a] = m_ControlRegs'[op.a]]_vars

\* a resume from Off after which a mixer register written while powered down
\* agrees with the chip, while register 0x18 written earlier still differs
C16_Witness ==
    /\ op.name = "PowerChangeState"
    /\ op.a = PowerDeviceD0
    /\ op.b = PowerDeviceD3
    /\ m_PowerState = PowerDeviceD0
    /\ \A i \in CTRL_MIXER_FIRST..CTRL_MIXER_LAST : hw.regs[i] = m_ControlRegs[i]
    /\ m_ControlRegs[24] = 249
    /\ hw.regs[24] # 249

(***************************************************************************)
(* C17: in Standby2 or Off, SaveToEEPROM and RestoreFromEEPROM return      *)
(* STATUS_DEVICE_POWERED_OFF without any port access: the bank latch, the  *)
(* chip, the cache and the card identity are unchanged.                    *)
(***************************************************************************)
C17_EepromPowerGate ==
    [][(/\ op'.name \in {"SaveToEEPROM", "RestoreFromEEPROM"}
        /\ m_PowerState \in {PowerDeviceD2, PowerDeviceD3})
       => /\ op'.ret = STATUS_DEVICE_POWERED_OFF
          /\ ports' = <<>>
          /\ UNCHANGED <<hw, m_ControlRegs, m_CardModel, m_CardOptions,
                         m_PowerState>>]_vars

\* a save refused in Standby2 with the EEPROM still in its shipped state
C17_Witness ==
    /\ op.name = "SaveToEEPROM"
    /\ op.ret = STATUS_DEVICE_POWERED_OFF
    /\ m_PowerState = PowerDeviceD2
    /\ ports = <<>>
    /\ hw.eeprom[6] = EepromFill
    /\ hw.regs[6] # EepromFill

(***************************************************************************)
(* C18: after ControlRegReset returns, each of the 12 mixer settings is    *)
(* cached as the low byte of its stored value when the settings store      *)
(* holds a value for it, and as its DefaultMixerSettings value otherwise,  *)
(* for every combination of present and missing values.                    *)
(***************************************************************************)
C18_ResetLoadsEachSetting ==
    op.name = "ControlRegReset"
    => LET store    == StoreCases[op.store]
           readable == store.open /\ ~store.created /\ store.alloc
       IN  \A i \in 1..Len(DefaultMixerSettings) :
              m_ControlRegs[DefaultMixerSettings[i][1]]
                 = IF readable /\ store.q[i] \notin {Missing, BadLength}
                   THEN store.q[i] % 256
                   ELSE DefaultMixerSettings[i][2]

(***************************************************************************)
(* C19: in an operative power state and whatever bank is selected on       *)
(* entry, WriteOPL3 to an address in 0x100..0x1FF delivers the low address *)
(* byte and the data byte to OPL3 array 1 and leaves the OPL3 bank         *)
(* selected; to an address below 0x100 it touches only the base+0/1 pair.  *)
(***************************************************************************)
C19_SecondaryBankWrite ==
    (op.name = "WriteOPL3" /\ m_PowerState <= PowerDeviceD1)
    => IF op.a >= 256
       THEN /\ hw.bank = "OPL3"
            /\ hw.fm1Last = <<op.a % 256, op.b>>
            /\ ChipWrites(ports, HwBefore) = <<>>
       ELSE /\ PortsOf(ports) = {ALG_REG_FM0_ADDR, ALG_REG_FM0_DATA}
            /\ hw.fm0Last = <<op.a, op.b>>

(***************************************************************************)
(* C20: each consumer slot holds nothing or its one miniport; both are     *)
(* empty after the adapter's Init; the wave slot is empty after a failed   *)
(* wave-miniport Init and after the wave miniport is destroyed; the MIDI   *)
(* slot is set only by a successful MIDI-miniport Init and is empty after  *)
(* the MIDI miniport is destroyed; a slot that is set refers to a miniport *)
(* that is initialized and not destroyed.                                  *)
(***************************************************************************)
C20_ConsumerSlots ==
    /\ m_pWaveMiniport \in {NULL, WaveMiniport}
    /\ m_pMidiMiniport \in {NULL, MidiMiniport}
    /\ op.name = "Init" => m_pWaveMiniport = NULL /\ m_pMidiMiniport = NULL
    /\ (op.name = "WaveInit" /\ op.ret # STATUS_SUCCESS) => m_pWaveMiniport = NULL
    /\ miniports.wave.life = "destroyed" => m_pWaveMiniport = NULL
    /\ miniports.midi.life = "destroyed" => m_pMidiMiniport = NULL
    /\ m_pWaveMiniport # NULL => miniports.wave.life = "initialized"
    /\ m_pMidiMiniport # NULL => miniports.midi.life = "initialized"
    /\ (op.name = "MidiInit" /\ op.ret # STATUS_SUCCESS) => m_pMidiMiniport = NULL
    /\ (op.name = "MidiInit" /\ op.ret = STATUS_SUCCESS)
       => m_pMidiMiniport = MidiMiniport
    /\ (op.name = "WaveInit" /\ op.ret = STATUS_SUCCESS)
       => m_pWaveMiniport = WaveMiniport

\* the MIDI miniport destroyed after a successful Init, the wave miniport's
\* Init having failed: both slots are empty again
C20_Witness ==
    /\ op.name = "MidiDestroy"
    /\ op.a = 1
    /\ miniports.midi.life = "destroyed"
    /\ miniports.wave.life = "failed"
    /\ m_pWaveMiniport = NULL
    /\ m_pMidiMiniport = NULL

(***************************************************************************)
(* C21: under every interleaving of the interrupt dispatcher with the      *)
(* setting and clearing of the consumer slots, every callback the          *)
(* dispatcher invokes goes through a slot that holds a miniport, and the   *)
(* miniport it reaches has not been deregistered.                          *)
(***************************************************************************)
C21_DispatchNeverRacesSlot ==
    /\ op.name = "ServiceWaveISR"
       => op.a = 1 /\ m_pWaveMiniport # NULL /\ miniports.wave.life = "initialized"
    /\ op.name = "ServiceMidiISR"
       => op.a = 1 /\ m_pMidiMiniport # NULL /\ miniports.midi.life = "initialized"

(***************************************************************************)
(* C22: every invocation of the interrupt dispatcher, whatever status it   *)
(* reads, in every power state and whatever bank was selected on entry,    *)
(* begins with a write of the control bank select, one read of the status  *)
(* port and a write of the OPL3 bank select, in that order and before any  *)
(* other port access, and returns with the OPL3 bank selected.             *)
(***************************************************************************)
C22_ProbeRoundTrip ==
    op.name = "Isr"
    => /\ Len(ports) >= 3
       /\ ports[1] = Access("W", ALG_REG_FM1_ADDR, ALG_BANK_CONTROL, 1)
       /\ ports[2] = Access("R", ALG_REG_FM1_ADDR, op.a, 1)
       /\ ports[3] = Access("W", ALG_REG_FM1_ADDR, ALG_BANK_OPL3, 1)
       /\ \A i \in 4..Len(ports) : ports[i].port # ALG_REG_FM1_ADDR
       /\ hw.bank = "OPL3"

\* a dispatch entered in Off with the control bank selected that found no
\* source pending: the round trip is all it did
C22_Witness ==
    /\ op.name = "Isr"
    /\ op.ret = STATUS_UNSUCCESSFUL
    /\ op.bank0 = "Control"
    /\ m_PowerState = PowerDeviceD3
    /\ Len(ports) = 3
    /\ hw.bank = "OPL3"

\* the dB values a tone node can hold exactly
ToneSteps(node) ==
    {d \in ToneParams(node).dBMin..ToneParams(node).dBMax : d % 3 = 0}

(***************************************************************************)
(* C23: a cached bass register 0xF9 is read by a Tone GET as +9 dB; for    *)
(* every multiple of 3 dB in the node's range (bass -12..+15, treble       *)
(* -12..+12) a Tone SET caches 0xF0 | (dB/3 + 6) and a Tone GET that       *)
(* follows it returns the same value, dB << 16.                            *)
(***************************************************************************)
C23_ToneRoundTrip ==
    [][/\ (op'.name = "ToneGet" /\ op'.a = NODE_BASS
           /\ m_ControlRegs[CTRL_REG_BASS] = 249)
          => op'.b = KsFromDb(9)
       /\ (op'.name = "ToneSet" /\ DbFromKs(op'.b) \in ToneSteps(op'.a))
          => m_ControlRegs'[ToneParams(op'.a).reg]
                = CTRL_TONE_FORCED_BITS + (DbFromKs(op'.b) \div 3 + 6)
       /\ (op.name = "ToneSet" /\ DbFromKs(op.b) \in ToneSteps(op.a)
           /\ op'.name = "ToneGet" /\ op'.a = op.a)
          => op'.b = op.b]_vars

\* treble set to -12 dB while powered down and read back as -12 dB
C23_Witness ==
    /\ op.name = "ToneGet"
    /\ op.a = NODE_TREBLE
    /\ op.b = KsFromDb(-12)
    /\ m_ControlRegs[CTRL_REG_TREBLE] = 242
    /\ hw.regs[CTRL_REG_TREBLE] # 242
    /\ m_PowerState = PowerDeviceD3

(***************************************************************************)
(* C24.  A ControlRegWrite that touches the hardware (power Full or        *)
(* Standby1) accesses the ports in this order: 0xFF to the shared address  *)
(* port, busy-poll reads of that port, the register index to the address   *)
(* port, the value to the data port, the settle step (nothing, status      *)
(* reads or a stall), 0xFE to the address port; nothing else is accessed,  *)
(* and on return the shadow cache holds the value for a cached index.      *)
(***************************************************************************)
IsW(e, port, val) == e.rw = "W" /\ e.port = port /\ e.val = val
IsPoll(e) == e.rw = "R" /\ e.port = ALG_REG_FM1_ADDR /\ e.n >= 1
IsSettle(e) == IsPoll(e) \/ e.rw = "S"

C24_WriteSequence ==
    (op.name = "ControlRegWrite" /\ m_PowerState <= PowerDeviceD1) =>
        /\ Len(ports) \in {5, 6}
        /\ IsW(ports[1], ALG_REG_FM1_ADDR, ALG_BANK_CONTROL)
        /\ IsPoll(ports[2])
        /\ IsW(ports[3], ALG_REG_FM1_ADDR, op.a)
        /\ IsW(ports[4], ALG_REG_FM1_DATA, op.b)
        /\ Len(ports) = 6 => IsSettle(ports[5])
        /\ IsW(ports[Len(ports)], ALG_REG_FM1_ADDR, ALG_BANK_OPL3)
        /\ op.a < CTRL_REG_MAX => m_ControlRegs[op.a] = op.b

\* a write of a mixer register whose first poll found the chip busy
C24_Witness ==
    /\ op.name = "ControlRegWrite"
    /\ m_PowerState <= PowerDeviceD1
    /\ Len(ports) = 6
    /\ ports[2].n > 1
    /\ op.a = 6
    /\ m_ControlRegs[6] = 249

(***************************************************************************)
(* C25.  The settle step of a ControlRegWrite that touches the hardware    *)
(* depends only on the register index: for 0x04..0x08 it polls the busy    *)
(* status again, for 0x09..0x16 it is one fixed stall with no status read, *)
(* for every other index (0x00..0x03, 0x17 and above) there is neither.    *)
(***************************************************************************)
SettleOf(log) == SubSeq(log, 5, Len(log) - 1)

C25_SettleByIndex ==
    (op.name = "ControlRegWrite" /\ m_PowerState <= PowerDeviceD1) =>
        LET settle == SettleOf(ports)
        IN  /\ (op.a >= 4 /\ op.a <= 8) =>
                   (Len(settle) = 1 /\ IsPoll(settle[1]))
            /\ (op.a >= 9 /\ op.a <= 22) =>
                   settle = << Access("S", 0, 5, 1) >>
            /\ (op.a < 4 \/ op.a > 22) => settle = << >>

\* the last stalled index written with one value and the first unsettled
\* index written with another, the chip busy at the first poll of the latter
C25_Witness ==
    /\ op.name = "ControlRegWrite"
    /\ m_PowerState <= PowerDeviceD1
    /\ op.a = 23
    /\ op.b = 249
    /\ ports[2].n = 2
    /\ Len(ports) = 5
    /\ m_ControlRegs[22] = 0
    /\ m_ControlRegs[8] = 249

(***************************************************************************)
(* C26.  WaitForReady reads the status port at least once and at most 1000 *)
(* times and then returns; it reports ready exactly when the last status   *)
(* read has both busy bits (0xC0) clear.  The closed form WaitLoop, which  *)
(* ControlRegWrite, SaveToEEPROM and RestoreFromEEPROM are built on,       *)
(* gives the same read count and result for the same number of busy reads. *)
(***************************************************************************)
Waiting == call.pc = "wait"

\* the busy reads of a returned call: all but the last, or all on timeout
BusyReadsOf(reads, status) ==
    IF BitAnd(status, ALG_STATUS_BUSY_MASK) = 0 THEN reads - 1 ELSE reads

C26_Returned ==
    op.name = "WaitForReady" =>
        /\ op.a >= 1
        /\ op.a <= 1000
        /\ (op.ret = "TRUE") <=> (BitAnd(op.b, 192) = 0)
        /\ WaitLoop(BusyReadsOf(op.a, op.b), WaitTimeout).reads = op.a
        /\ WaitForReadyResult(BusyReadsOf(op.a, op.b)) = (op.ret = "TRUE")

C26_WaitForReady == []C26_Returned /\ (Waiting ~> ~Waiting)

\* the busy bits never cleared: the 1000th read ends the loop, not ready
C26_Witness ==
    /\ op.name = "WaitForReady"
    /\ op.a = 1000
    /\ op.ret = "FALSE"
    /\ op.b = 128

\* the busy bits cleared at the 1000th read
C26_WitnessLastRead ==
    /\ op.name = "WaitForReady"
    /\ op.a = 1000
    /\ op.ret = "TRUE"

(***************************************************************************)
(* C27.  As long as the indices have not been reset, every byte a Read     *)
(* copies out is the oldest byte ServiceMidiISR stored that no Read has    *)
(* returned yet: the Reads return the stored bytes in the order stored,    *)
(* each once, however the steps of Read and ServiceMidiISR interleave.     *)
(***************************************************************************)
C27_ReadFifo ==
    (op.name = "ReadCopy" /\ ring.resets = 0) =>
        /\ op.b >= 1
        /\ op.a = RxByte(op.b)
        /\ \A i \in 1..Len(ring.pending) : ring.pending[i].stamp > op.b

\* the second byte is copied out while the interrupt is about to publish a
\* third one
C27_Witness ==
    /\ op.name = "ReadCopy"
    /\ ring.resets = 0
    /\ ring.m_KSStateInput = KSSTATE_RUN
    /\ op.b >= 2
    /\ ring.sv.pc = "advance"
    /\ ring.rd.count = 2

(***************************************************************************)
(* C28.  The ring buffer never holds more than 255 bytes, and head and     *)
(* tail stay in 0..255.  A byte that arrives while 255 are buffered is     *)
(* dropped, one that arrives while fewer are buffered is stored.  A byte   *)
(* stored and not yet read or discarded stays in the slot it was written   *)
(* to, and the pending bytes lie in the order stored between the head and  *)
(* the tail, so none is lost, overwritten or reordered.  (A byte that an   *)
(* interrupt fetched before an index reset and stored after it was not     *)
(* buffered when the reset discarded the buffer; C29 is about that byte.)  *)
(***************************************************************************)
Occupancy(r) ==
    (r.m_InputBufferTail + MIDI_INPUT_BUFFER_SIZE - r.m_InputBufferHead)
        % MIDI_INPUT_BUFFER_SIZE

\* how far the slot lies from the head, in reading order
Ahead(r, slot) ==
    (slot + MIDI_INPUT_BUFFER_SIZE - r.m_InputBufferHead) % MIDI_INPUT_BUFFER_SIZE

\* the slots Read has still to visit, counting the one an interrupt has
\* written and not yet published
Unread(r) == Occupancy(r) + (IF r.sv.pc = "advance" THEN 1 ELSE 0)

\* the pending bytes whose fetch and store no index reset came between
IsTimely(p) == ~p.late
Buffered(r) == SelectSeq(r.pending, IsTimely)

\* each byte of the sequence b has its value in its slot, and the bytes lie
\* in stored order among the slots Read has still to visit
InPlace(r, b) ==
    \A i \in 1..Len(b) :
        /\ BufferAt(r.m_InputBuffer, b[i].slot) = RxByte(b[i].stamp)
        /\ Ahead(r, b[i].slot) < Unread(r)
        /\ i > 1 => /\ b[i - 1].stamp < b[i].stamp
                    /\ Ahead(r, b[i - 1].slot) < Ahead(r, b[i].slot)

C28_RingCapacity ==
    /\ ring.m_InputBufferHead \in 0..255
    /\ ring.m_InputBufferTail \in 0..255
    /\ Occupancy(ring) <= 255
    /\ Len(ring.pending) <= 255
    /\ (op.name = "ServiceMidiISRFetch" /\ op.ret \in {"drop", "store"}) =>
           ((op.ret = "drop") <=> (Occupancy(ring) = 255))
    /\ InPlace(ring, Buffered(ring))

\* the byte that arrives with 255 buffered is dropped
C28_Witness ==
    /\ op.name = "ServiceMidiISRFetch"
    /\ op.ret = "drop"
    /\ Len(Buffered(ring)) = 255
    /\ Occupancy(ring) = 255

(***************************************************************************)
(* C29.  Every byte a Read copies out is a byte ServiceMidiISR stored      *)
(* (which it does only while m_KSStateInput is KSSTATE_RUN and a capture   *)
(* stream is open) and took from the receive FIFO after the most recent    *)
(* SetState(KSSTATE_STOP): a stop leaves nothing behind for a later Read.  *)
(***************************************************************************)
C29_ReadOnlyCurrentRun ==
    op.name = "ReadCopy" => op.b > ring.rxAtStop

(***************************************************************************)
(* C30.  A Write of Length >= 1 on the render stream delivers exactly the  *)
(* first min(Length, 16) bytes of the buffer, in order, to the MIDI data   *)
(* register (MMA register 0x0E) from within CallSynchronizedRoutine, and   *)
(* BytesWritten is the number of bytes delivered.  A Write on the capture  *)
(* stream returns STATUS_INVALID_DEVICE_REQUEST and delivers nothing.      *)
(***************************************************************************)
\* the values written to MMA register reg, in order: each data-port write
\* that follows a write of reg to the address port
RECURSIVE MmaWrites(_, _, _)
MmaWrites(log, reg, selected) ==
    IF log = <<>> THEN <<>>
    ELSE LET e == Head(log)
         IN  IF e.rw = "W" /\ e.port = ALG_REG_MMA0_ADDR
             THEN MmaWrites(Tail(log), reg, e.val)
             ELSE IF e.rw = "W" /\ e.port = ALG_REG_MMA0_DATA /\ selected = reg
             THEN <<e.val>> \o MmaWrites(Tail(log), reg, -1)
             ELSE MmaWrites(Tail(log), reg, selected)

Min(a, b) == IF a < b THEN a ELSE b

C30_WriteDelivers ==
    op.name = "Write" =>
        IF op.wave = 1
        THEN /\ op.ret = STATUS_INVALID_DEVICE_REQUEST
             /\ ports = <<>>
        ELSE op.a >= 1 =>
             /\ MmaWrites(ports, MMA_REG_MIDI_DATA, -1)
                    = [i \in 1..Min(op.a, 16) |-> TxByte(i)]
             /\ op.b = Len(MmaWrites(ports, MMA_REG_MIDI_DATA, -1))
             /\ op.midi = 1
             /\ op.ret = STATUS_SUCCESS

(***************************************************************************)
(* C31  At any time the wave miniport has at most one capture stream and   *)
(* at most one render stream: the allocation flag of a direction is set    *)
(* exactly while one stream object of that direction exists.  A NewStream  *)
(* for a direction that is allocated returns STATUS_INVALID_DEVICE_REQUEST *)
(* and changes neither the miniport nor the hardware; a NewStream that     *)
(* succeeds found its direction free.  Destroying a stream frees its own   *)
(* direction and leaves the other direction as it was.                     *)
(***************************************************************************)
Allocated(w, fCapture) ==
    IF fCapture THEN w.m_CaptureAllocated ELSE w.m_RenderAllocated

\* the step is the wave stream call `name`
WaveCall(name) == audio'.n = audio.n + 1 /\ op'.name = name

OneStreamPerDirection(w) ==
    /\ w.nCapture = (IF w.m_CaptureAllocated THEN 1 ELSE 0)
    /\ w.nRender = (IF w.m_RenderAllocated THEN 1 ELSE 0)
    /\ w.capture.live = w.m_CaptureAllocated
    /\ w.render.live = w.m_RenderAllocated

C31_OneStreamPerDirection ==
    [][ /\ OneStreamPerDirection(audio')
        /\ WaveCall("WaveNewStream") =>
              IF Allocated(audio, op'.a = 1)
              THEN /\ op'.ret = STATUS_INVALID_DEVICE_REQUEST
                   /\ audio' = [audio EXCEPT !.n = @ + 1]
                   /\ hw' = hw
                   /\ ports' = <<>>
              ELSE op'.ret = STATUS_SUCCESS <=> Allocated(audio', op'.a = 1)
        /\ WaveCall("WaveStreamDestroy") =>
              /\ ~Allocated(audio', op'.a = 1)
              /\ Allocated(audio', op'.a # 1) = Allocated(audio, op'.a # 1)
              /\ StreamOf(audio', op'.a # 1).live = StreamOf(audio, op'.a # 1).live
      ]_vars

\* a NewStream was refused because its direction is allocated
C31_Witness ==
    /\ op.name = "WaveNewStream"
    /\ op.ret = STATUS_INVALID_DEVICE_REQUEST
    /\ Allocated(audio, op.a = 1)

\* a NewStream succeeded for a direction whose earlier stream was destroyed,
\* the other direction being allocated throughout
C31_WitnessReuse ==
    /\ op.name = "WaveNewStream"
    /\ op.ret = STATUS_SUCCESS
    /\ (op.a = 1) \in audio.freed
    /\ audio.m_CaptureAllocated /\ audio.m_RenderAllocated

(***************************************************************************)
(* C32  Full-duplex rate constraint.  Whenever a capture and a render      *)
(* stream are both allocated, the sample rate each was last configured     *)
(* with by a successful NewStream or SetFormat is the same and is the      *)
(* miniport's m_SamplingFrequency.  A NewStream for the free direction, or *)
(* a SetFormat with both directions allocated, that asks for a valid       *)
(* format of another rate returns STATUS_INVALID_PARAMETER and changes     *)
(* nothing.                                                                *)
(***************************************************************************)
DuplexRatesAgree(w) ==
    (w.m_CaptureAllocated /\ w.m_RenderAllocated) =>
        /\ w.capture.rate = w.m_SamplingFrequency
        /\ w.render.rate = w.m_SamplingFrequency

\* the format argument of the call is valid and asks for another rate
OtherValidRate(w, i) ==
    /\ ValidateFormat(WaveFormats[i]) = STATUS_SUCCESS
    /\ WaveFormats[i].nSamplesPerSec # w.m_SamplingFrequency

C32_DuplexRate ==
    [][ /\ DuplexRatesAgree(audio')
        /\ ( /\ WaveCall("WaveNewStream")
             /\ ~Allocated(audio, op'.a = 1)
             /\ Allocated(audio, op'.a # 1)
             /\ OtherValidRate(audio, op'.b) ) =>
              /\ op'.ret = STATUS_INVALID_PARAMETER
              /\ audio' = [audio EXCEPT !.n = @ + 1]
        /\ ( /\ WaveCall("WaveSetFormat")
             /\ audio.m_CaptureAllocated /\ audio.m_RenderAllocated
             /\ OtherValidRate(audio, op'.b) ) =>
              /\ op'.ret = STATUS_INVALID_PARAMETER
              /\ audio' = [audio EXCEPT !.n = @ + 1]
      ]_vars

\* with both directions allocated a SetFormat to another valid rate was refused
C32_Witness ==
    /\ op.name = "WaveSetFormat"
    /\ op.ret = STATUS_INVALID_PARAMETER
    /\ audio.m_CaptureAllocated /\ audio.m_RenderAllocated
    /\ OtherValidRate(audio, op.b)
    /\ audio.capture.rate = audio.render.rate

\* a lone stream changed the rate and the other direction was then opened at it
C32_WitnessFollows ==
    /\ op.name = "WaveNewStream"
    /\ op.ret = STATUS_SUCCESS
    /\ audio.m_CaptureAllocated /\ audio.m_RenderAllocated
    /\ audio.m_SamplingFrequency = 22050

(***************************************************************************)
(* C33  For a single wave stream (the other direction never opened), after *)
(* any sequence of SetState calls: while m_State is KSSTATE_RUN the last   *)
(* byte written to MMA register 0x09 has the GO bit set; while m_State is  *)
(* KSSTATE_PAUSE or KSSTATE_STOP and the stream has been in KSSTATE_RUN,   *)
(* the last byte written to register 0x09 has GO clear and the last byte   *)
(* written to register 0x0C has the FIFO interrupt mask bit set.           *)
(***************************************************************************)
\* the last byte written to an MMA register has the bit set
LastWriteHas(c, reg, bit) ==
    reg \in DOMAIN c.regs /\ BitAnd(c.regs[reg], bit) # 0

\* the last byte written to an MMA register has the bit clear
LastWriteLacks(c, reg, bit) ==
    reg \in DOMAIN c.regs /\ BitAnd(c.regs[reg], bit) = 0

\* only streams of this direction have existed
OnlyDirection(w, fCapture) ==
    /\ StreamOf(w, fCapture).live
    /\ ~StreamOf(w, ~fCapture).live
    /\ (~fCapture) \notin w.freed

StateMatchesHardware(w, s) ==
    /\ s.m_State = KSSTATE_RUN => LastWriteHas(w.mma, MMA_REG_PLAYBACK, MMA_PB_GO)
    /\ (s.m_State \in {KSSTATE_PAUSE, KSSTATE_STOP} /\ s.ran) =>
          /\ LastWriteLacks(w.mma, MMA_REG_PLAYBACK, MMA_PB_GO)
          /\ LastWriteHas(w.mma, MMA_REG_FORMAT, MMA_FMT_MSK)

C33_StateMatchesHardware ==
    \A fCapture \in BOOLEAN :
        OnlyDirection(audio, fCapture) =>
            StateMatchesHardware(audio, StreamOf(audio, fCapture))

(***************************************************************************)
(* C34  A SetFormat issued while the stream is in KSSTATE_RUN is rejected  *)
(* and leaves the stream's bit depth, its channel count and the miniport's *)
(* sampling frequency as they were.                                        *)
(***************************************************************************)
C34_SetFormatNotWhileRunning ==
    [][ ( /\ WaveCall("WaveSetFormat")
          /\ StreamOf(audio, op'.a = 1).m_State = KSSTATE_RUN ) =>
            /\ op'.ret # STATUS_SUCCESS
            /\ StreamOf(audio', op'.a = 1).m_16Bit = StreamOf(audio, op'.a = 1).m_16Bit
            /\ StreamOf(audio', op'.a = 1).m_Stereo = StreamOf(audio, op'.a = 1).m_Stereo
            /\ audio'.m_SamplingFrequency = audio.m_SamplingFrequency
      ]_vars

(***************************************************************************)
(* C37  With a capture and a render stream both allocated, no SetState on  *)
(* one stream and no destruction of it stops the other: a stream that is   *)
(* in KSSTATE_RUN with the hardware running for it (the last byte written  *)
(* to MMA register 0x09 has the GO bit set and, for an 8-bit stream, the   *)
(* shared DMA channel is started) still has the hardware running for it    *)
(* after the call.  Stated for steps taken while the adapter has never     *)
(* been below Standby1.                                                    *)
(***************************************************************************)
HardwareRunsFor(w, s) ==
    /\ LastWriteHas(w.mma, MMA_REG_PLAYBACK, MMA_PB_GO)
    /\ ~s.m_16Bit => w.dma.running

\* the step is a SetState on the stream of direction fCapture or its destruction
CallOnStream(fCapture) ==
    /\ WaveCall("WaveSetState") \/ WaveCall("WaveStreamDestroy")
    /\ (op'.a = 1) = fCapture

C37_OtherStreamKeepsRunning ==
    [][ \A fCapture \in BOOLEAN :
          ( /\ CallOnStream(~fCapture)
            /\ ~audio.slept
            /\ audio.m_CaptureAllocated /\ audio.m_RenderAllocated
            /\ StreamOf(audio, fCapture).m_State = KSSTATE_RUN
            /\ HardwareRunsFor(audio, StreamOf(audio, fCapture)) ) =>
              HardwareRunsFor(audio', StreamOf(audio', fCapture))
      ]_vars

(***************************************************************************)
(* C39: the dispatcher reports handled only for a source it dispatches.    *)
(* Whenever an invocation of InterruptServiceRoutine returned              *)
(* STATUS_SUCCESS, the status byte it read had the sampling/MIDI bit or    *)
(* the FM-timer bit asserted (0); a status with only the SCSI or telephone *)
(* bits asserted is answered STATUS_UNSUCCESSFUL.                          *)
(***************************************************************************)
DispatchedSourceAsserted(status) ==
    \/ BitAnd(status, ALG_STATUS_SMP_IRQ) = 0
    \/ BitAnd(status, ALG_STATUS_FM_IRQ) = 0

C39_HandledOnlyWhenDispatched ==
    (op.name = "Isr" /\ op.ret = STATUS_SUCCESS) => DispatchedSourceAsserted(op.a)

(***************************************************************************)
(* SpecLevel: PropertyHandler_Level taken whole, SET and GET, over every   *)
(* volume node and channel and over requested values inside, at the ends   *)
(* of and beyond the byte range.                                           *)
(***************************************************************************)
LevelNodeInputs == 0 .. 4
LevelChannelInputs == {CHAN_MASTER, CHAN_LEFT, CHAN_RIGHT}
LevelValueInputs == {-1, 0, 128, 200, 255, 300}

\* PropertyHandler_Level, GET verb: the register it reads
LevelGetReg(node, channel) ==
    LET map == NodeRegMap[node + 1]
    IN  IF channel = CHAN_RIGHT /\ map.RegRight # 0 THEN map.RegRight
        ELSE map.RegLeft

\* the operation record of a Level request: a the node, b the value passed
\* in (SET) or handed back (GET), channel the channel of the instance data
LevelOp(name, node, channel, val) ==
    [name |-> name, a |-> node, b |-> val, ret |-> STATUS_SUCCESS,
     wave |-> 0, midi |-> 0, bank0 |-> hw.bank, store |-> 0, channel |-> channel]

PropertyHandlerLevelSetAct ==
    /\ Ready
    /\ \E node \in LevelNodeInputs, channel \in LevelChannelInputs,
          x \in LevelValueInputs :
          /\ Commit(WriteAll(Mach(<<>>), LevelSetWrites(node, channel, x), 0))
          /\ op' = LevelOp("LevelSet", node, channel, x)
    /\ nops' = nops + 1
    /\ UNCHANGED <<audio, ring, isr, miniports, adapter, connected, m_CardModel,
                   m_CardOptions, m_pWaveMiniport, m_pMidiMiniport, call>>

PropertyHandlerLevelGetAct ==
    /\ Ready
    /\ \E node \in LevelNodeInputs, channel \in LevelChannelInputs :
          op' = LevelOp("LevelGet", node, channel,
                        ControlRegRead(m_ControlRegs, LevelGetReg(node, channel)))
    /\ ports' = <<>>
    /\ nops' = nops + 1
    /\ UNCHANGED <<audio, ring, isr, miniports, adapter, connected, m_PowerState,
                   m_ControlRegs, m_CardModel, m_CardOptions, m_pWaveMiniport,
                   m_pMidiMiniport, hw, call>>

NextLevel ==
    \/ AdapterInitAct
    \/ PropertyHandlerLevelSetAct
    \/ PropertyHandlerLevelGetAct

SpecLevel == Init /\ [][NextLevel]_vars

(***************************************************************************)
(* C36: a Level SET clamps the requested value to the node's range.  After *)
(* a SET of the LONG x on a node, every register the SET wrote holds       *)
(* min(max(x, MinVal), MaxVal), MinVal..MaxVal being 0x80..0xFF for the    *)
(* sampling, FM, aux and mic nodes and 0xC0..0xFF for master; and a GET    *)
(* that follows on the same node and channel hands back that value.        *)
(***************************************************************************)
LevelWritten(node, channel) ==
    {LevelSetWrites(node, channel, 0)[i][1] :
        i \in DOMAIN LevelSetWrites(node, channel, 0)}

LevelRequested(node, x) ==
    Clamp(x, NodeRegMap[node + 1].MinVal, NodeRegMap[node + 1].MaxVal)

C36_LevelClamped ==
    [][ /\ op'.name = "LevelSet" =>
            \A reg \in LevelWritten(op'.a, op'.channel) :
                m_ControlRegs'[reg] = LevelRequested(op'.a, op'.b)
        /\ ( /\ op.name = "LevelSet" /\ op'.name = "LevelGet"
             /\ op'.a = op.a /\ op'.channel = op.channel ) =>
                op'.b = LevelRequested(op.a, op.b)
      ]_vars

(***************************************************************************)
(* C35: while a 16-bit render stream is in KSSTATE_RUN, every sampling     *)
(* interrupt dispatched to the wave consumer is eventually followed by a   *)
(* FillFifo call, which writes the next 128 bytes of the cyclic buffer to  *)
(* the FIFO and advances the software position (or the stream has left the *)
(* PIO RUN state by then).                                                 *)
(***************************************************************************)
FillOwed == PioRenderRuns(audio.render) /\ audio.render.irq

C35_InterruptLeadsToFill == FillOwed ~> ~FillOwed

(***************************************************************************)
(* C38: every WriteMMA(register, value) of the wave stream delivers value  *)
(* to the register the call selected, however the interrupt dispatcher and *)
(* the ServiceMidiISR it calls interleave with it: when the call's data    *)
(* write is made the address latch holds the call's register, and the      *)
(* register holds the value afterwards.                                    *)
(***************************************************************************)
C38_WriteReachesSelectedRegister ==
    (op.name = "WriteMMAStep" /\ op.ret = "data") =>
        /\ op.wave = op.a
        /\ BufferAt(audio.mma.regs, op.a) = op.b

=============================================================================
